---- MODULE Spec2Model ----
(***************************************************************************)
(* Model of the Slint interpreter C++ API (api/cpp/include/                *)
(* slint_interpreter.h): ComponentCompiler, ComponentDefinition and        *)
(* ComponentInstance.                                                      *)
(*                                                                         *)
(* The header is a thin binding: every method forwards to an engine entry  *)
(* point slint_interpreter_... that is declared in                         *)
(* slint_interpreter_internal.h and implemented outside the header.  The   *)
(* methods of the header are modelled from their code; the engine entry    *)
(* points are modelled from the specification (spec.md sections 4.3, 4.4,  *)
(* 6 and 7) and carry the engine's name.                                   *)
(***************************************************************************)
EXTENDS Integers, Sequences, FiniteSets, TLC

(***************************************************************************)
(* Bounds.                                                                 *)
(***************************************************************************)
\* number of build_* calls made on the one ComponentCompiler
MaxBuilds == 3
\* number of handler objects the host allocates with set_callback /
\* set_global_callback
MaxHandlers == 2

VARIABLES
    compiler,     \* ComponentCompiler::inner : the engine's compiler session
    definition,   \* the std::optional<ComponentDefinition> of the last build_*
    log,          \* history of the build_* calls: input and whether it succeeded
    ret,          \* the most recent call of the host and what it returned
    instance,     \* the engine state behind the ComponentInstance
    heap,         \* the handler objects allocated by set_callback (new F)
    ran,          \* the handlers run during the most recent call, in order
    held,         \* a Value the host obtained earlier from get_property
    registered    \* the set_callback / set_global_callback calls that returned true

VARIABLES
    hostValue,    \* a Value of the host
    datum,        \* the host datum that Value was constructed from
    hostStruct,   \* Struct::inner : the fields of a Struct of the host
    fields,       \* for each name, the value of the last set_field on it
    hostModel,    \* the slint::Model<Value> of the host: its backing sequence
    wrapper,      \* the ModelWrapper made by Value(shared_ptr<Model<Value>>)
    notified,     \* what the engine's notifier received in the most recent call
    array,        \* the vector a to_array() call returned to the host
    window,       \* the window of the instance and the handles that own it
    pc            \* where the host is inside ComponentInstance::run()

compilerVars == <<compiler, definition, log>>
instanceVars == <<instance, heap, ran, held, registered>>
valueVars == <<hostValue, datum, hostStruct, fields>>
modelVars == <<hostModel, wrapper, notified, array>>
lifeVars == <<window, pc>>
otherVars == <<valueVars, modelVars, lifeVars>>

vars == <<compiler, definition, log, ret, instance, heap, ran, held, registered,
          hostValue, datum, hostStruct, fields, hostModel, wrapper, notified, array,
          window, pc>>

(***************************************************************************)
(* std::optional                                                           *)
(***************************************************************************)
None == [has |-> FALSE]
Some(v) == [has |-> TRUE, value |-> v]

Range(s) == {s[i] : i \in DOMAIN s}

(***************************************************************************)
(* The markup compiler (external collaborator, spec.md section 6):         *)
(* compile(source) -> (Definition | nothing, Diagnostics[]).  The          *)
(* documents below are the inputs of the model; what the compiler makes    *)
(* of each is fixed, as the collaborator is deterministic.                 *)
(***************************************************************************)
Warning(msg) == [severity |-> "warning", message |-> msg]
Error(msg) == [severity |-> "error", message |-> msg]

\* component App with `property <string> hello;`, `property <int> count;`,
\* `callback foo(string, int) -> string;`, `callback clicked();`, the exported
\* global TheGlobal and the global Internal that is not exported
AppComponent ==
    [name |-> "App",
     properties |-> << [name |-> "hello", type |-> "string"],
                       [name |-> "count", type |-> "int"] >>,
     callbacks |-> << [name |-> "foo", args |-> <<"string", "int">>, ret |-> "string"],
                      [name |-> "clicked", args |-> << >>, ret |-> "void"] >>,
     globals |-> << [name |-> "TheGlobal", exported |-> TRUE,
                     properties |-> << [name |-> "hello", type |-> "int"] >>,
                     callbacks |-> << [name |-> "to_uppercase", args |-> <<"string">>,
                                       ret |-> "string"] >>],
                    [name |-> "Internal", exported |-> FALSE,
                     properties |-> << [name |-> "secret", type |-> "int"] >>,
                     callbacks |-> << [name |-> "ping", args |-> << >>,
                                       ret |-> "void"] >>] >>]

\* component Plain with one property, no callback, and an exported global
\* that declares nothing
PlainComponent ==
    [name |-> "Plain",
     properties |-> << [name |-> "hello", type |-> "string"] >>,
     callbacks |-> << >>,
     globals |-> << [name |-> "Empty", exported |-> TRUE,
                     properties |-> << >>, callbacks |-> << >>] >>]

NoComponent == [name |-> ""]

\* the source texts handed to build_from_source
Sources == {"app", "plain-deprecated", "syntax-error", "unused-and-unknown"}

\* the files of the file system, by path; build_from_path reads them
Paths == {"app.slint", "broken.slint", "missing.slint"}
FileExists(path) == path \in {"app.slint", "broken.slint"}
FileContent(path) == IF path = "app.slint" THEN "app" ELSE "syntax-error"

Compile(source) ==
    CASE source = "app" ->
            [component |-> AppComponent, diagnostics |-> << >>]
      [] source = "plain-deprecated" ->
            [component |-> PlainComponent,
             diagnostics |-> << Warning("deprecated syntax") >>]
      [] source = "syntax-error" ->
            [component |-> NoComponent,
             diagnostics |-> << Error("parse error") >>]
      [] OTHER ->
            [component |-> NoComponent,
             diagnostics |-> << Warning("unused import"), Error("unknown type") >>]

HasError(diags) == \E i \in DOMAIN diags : diags[i].severity = "error"

\* the diagnostics of one compilation, each marked with the number of the
\* build_* call that produced it
Produced(diags, n) ==
    [i \in DOMAIN diags |->
        [severity |-> diags[i].severity, message |-> diags[i].message, build |-> n]]

(***************************************************************************)
(* Engine: compiler session (spec.md section 4.4).  Every build is a full  *)
(* reset-and-rebuild: the diagnostics of the previous call are cleared,    *)
(* then one compilation is attempted; the result is written and true is    *)
(* returned iff the compilation produced no error.                         *)
(***************************************************************************)
slint_interpreter_component_compiler_new ==
    [diagnostics |-> << >>, style |-> "", include_paths |-> << >>]

\* the configuration is read at the start of a build: the document
\* "import-lib" imports a file that is found only under the include path
\* "lib", the document "widgets" uses widgets, which no style "bogus" has
Resolve(inner, source_code) ==
    CASE source_code = "import-lib" ->
            IF "lib" \in Range(inner.include_paths)
            THEN Compile("app")
            ELSE [component |-> NoComponent,
                  diagnostics |-> << Error("cannot find import") >>]
      [] source_code = "widgets" ->
            IF inner.style # "bogus"
            THEN Compile("app")
            ELSE [component |-> NoComponent,
                  diagnostics |-> << Error("unknown style") >>]
      [] OTHER -> Compile(source_code)

EngineBuild_keep(inner, compiled, n) ==
    LET diags == inner.diagnostics \o Produced(compiled.diagnostics, n)
        ok == ~HasError(Produced(compiled.diagnostics, n))
    IN [inner |-> [inner EXCEPT !.diagnostics = diags],
        ok |-> ok,
        result |-> IF ok THEN compiled.component ELSE NoComponent]

EngineBuild(inner, compiled, n) ==
    LET cleared == [inner EXCEPT !.diagnostics = << >>]
        diags == cleared.diagnostics \o Produced(compiled.diagnostics, n)
        ok == ~HasError(diags)
    IN [inner |-> [cleared EXCEPT !.diagnostics = diags],
        ok |-> ok,
        result |-> IF ok THEN compiled.component ELSE NoComponent]

slint_interpreter_component_compiler_build_from_source(inner, source_code, path, n) ==
    EngineBuild(inner, Resolve(inner, source_code), n)

slint_interpreter_component_compiler_build_from_path(inner, path, n) ==
    IF FileExists(path)
    THEN EngineBuild(inner, Resolve(inner, FileContent(path)), n)
    ELSE EngineBuild(inner,
                     [component |-> NoComponent,
                      diagnostics |-> << Error("could not load file") >>], n)

slint_interpreter_component_compiler_get_diagnostics(inner) == inner.diagnostics

\* Engine: the configuration is held by the compiler object
slint_interpreter_component_compiler_set_style(inner, s) == [inner EXCEPT !.style = s]
slint_interpreter_component_compiler_get_style(inner) == inner.style
slint_interpreter_component_compiler_set_include_paths(inner, paths) ==
    [inner EXCEPT !.include_paths = paths]
slint_interpreter_component_compiler_get_include_paths(inner) == inner.include_paths

(***************************************************************************)
(* ComponentCompiler (slint_interpreter.h)                                 *)
(***************************************************************************)
\* ComponentCompiler::set_include_paths
set_include_paths(inner, paths) ==
    slint_interpreter_component_compiler_set_include_paths(inner, paths)

set_style_ignored(inner, s) == inner

\* ComponentCompiler::set_style
set_style(inner, s) == slint_interpreter_component_compiler_set_style(inner, s)

\* ComponentCompiler::style
style(inner) == slint_interpreter_component_compiler_get_style(inner)

\* ComponentCompiler::include_paths
include_paths(inner) == slint_interpreter_component_compiler_get_include_paths(inner)

\* ComponentCompiler::diagnostics
diagnostics(inner) == slint_interpreter_component_compiler_get_diagnostics(inner)

build_from_source_unchecked(inner, source_code, path, n) ==
    LET r == slint_interpreter_component_compiler_build_from_source(
                 inner, source_code, path, n)
    IN [inner |-> r.inner, value |-> Some(r.result)]

\* ComponentCompiler::build_from_source
build_from_source(inner, source_code, path, n) ==
    LET r == slint_interpreter_component_compiler_build_from_source(
                 inner, source_code, path, n)
    IN [inner |-> r.inner, value |-> IF r.ok THEN Some(r.result) ELSE None]

build_from_path_inverted(inner, path, n) ==
    LET r == slint_interpreter_component_compiler_build_from_path(inner, path, n)
    IN [inner |-> r.inner, value |-> IF r.ok THEN None ELSE Some(r.result)]

\* ComponentCompiler::build_from_path
build_from_path(inner, path, n) ==
    LET r == slint_interpreter_component_compiler_build_from_path(inner, path, n)
    IN [inner |-> r.inner, value |-> IF r.ok THEN Some(r.result) ELSE None]

(***************************************************************************)
(* Engine: introspection of a compiled component (spec.md section 6).      *)
(* Only the globals the top-level document exports are visible.            *)
(***************************************************************************)
Names(descriptors) == [i \in DOMAIN descriptors |-> descriptors[i].name]

PropertyDescriptors(properties) ==
    [i \in DOMAIN properties |->
        [property_name |-> properties[i].name, property_type |-> properties[i].type]]

IsExported(g) == g.exported

ExportedGlobals(inner) == SelectSeq(inner.globals, IsExported)

AllGlobals(inner) == inner.globals

\* the exported global of that name, as a set of at most one element
FindGlobal(inner, global_name) ==
    {g \in Range(ExportedGlobals(inner)) : g.name = global_name}

TheOne(set) == CHOOSE x \in set : TRUE

slint_interpreter_component_definition_properties(inner) ==
    PropertyDescriptors(inner.properties)

slint_interpreter_component_definition_callbacks(inner) == Names(inner.callbacks)

slint_interpreter_component_definition_name(inner) == inner.name

slint_interpreter_component_definition_globals(inner) == Names(ExportedGlobals(inner))

slint_interpreter_component_definition_global_properties(inner, global_name) ==
    LET found == FindGlobal(inner, global_name)
    IN IF found = {}
       THEN [ok |-> FALSE, out |-> << >>]
       ELSE [ok |-> TRUE, out |-> PropertyDescriptors(TheOne(found).properties)]

slint_interpreter_component_definition_global_callbacks(inner, global_name) ==
    LET found == FindGlobal(inner, global_name)
    IN IF found = {}
       THEN [ok |-> FALSE, out |-> << >>]
       ELSE [ok |-> TRUE, out |-> Names(TheOne(found).callbacks)]

(***************************************************************************)
(* ComponentDefinition (slint_interpreter.h)                               *)
(***************************************************************************)
\* ComponentDefinition::properties
properties(inner) == slint_interpreter_component_definition_properties(inner)

\* ComponentDefinition::callbacks
callbacks(inner) == slint_interpreter_component_definition_callbacks(inner)

\* ComponentDefinition::name
name(inner) == slint_interpreter_component_definition_name(inner)

\* ComponentDefinition::globals
globals(inner) == slint_interpreter_component_definition_globals(inner)

global_properties_unchecked(inner, global_name) ==
    Some(slint_interpreter_component_definition_global_properties(inner, global_name).out)

\* ComponentDefinition::global_properties
global_properties(inner, global_name) ==
    LET r == slint_interpreter_component_definition_global_properties(inner, global_name)
    IN IF r.ok THEN Some(r.out) ELSE None

\* ComponentDefinition::global_callbacks
global_callbacks(inner, global_name) ==
    LET r == slint_interpreter_component_definition_global_callbacks(inner, global_name)
    IN IF r.ok THEN Some(r.out) ELSE None

(***************************************************************************)
(* Value: the variants that cross the property and callback surface.  A    *)
(* double is modelled as a multiple of 1/2: the field halves is twice the  *)
(* number, so that 5 stands for 2.5 and 84 for 42.                         *)
(***************************************************************************)
ValueVoid == [type |-> "Void"]
ValueNumber(h) == [type |-> "Number", halves |-> h]
ValueString(str) == [type |-> "String", str |-> str]
ValueBool(b) == [type |-> "Bool", bool |-> b]

\* a ValueOpaque the engine did not write
Uninitialized == [type |-> "Uninitialized"]

\* a Value that is bound to a property of the instance instead of owning
\* its payload; the API never makes one
ValueBinding(path) == [type |-> "Binding", path |-> path]

(***************************************************************************)
(* Engine: typed property storage and callback signatures (spec.md         *)
(* section 4.3).  A property accepts the variant of its declared type; an  *)
(* int property stores the integral part.                                  *)
(***************************************************************************)
Declared(descriptors, member) == {d \in Range(descriptors) : d.name = member}

VariantOf(type) ==
    CASE type = "string" -> "String"
      [] type = "int" -> "Number"
      [] type = "bool" -> "Bool"
      [] OTHER -> "Void"

Compatible(type, value) == value.type = VariantOf(type)

Stored(type, value) ==
    IF type = "int" THEN ValueNumber((value.halves \div 2) * 2) ELSE value

DefaultValue(type) ==
    CASE type = "string" -> ValueString("")
      [] type = "int" -> ValueNumber(0)
      [] type = "bool" -> ValueBool(FALSE)
      [] OTHER -> ValueVoid

ArgsMatch(signature, args) ==
    /\ Len(args) = Len(signature)
    /\ \A i \in DOMAIN args : Compatible(signature[i], args[i])

InitialProperties(descriptors) ==
    [n \in Range(Names(descriptors)) |-> DefaultValue(TheOne(Declared(descriptors, n)).type)]

\* no handler is registered for any callback: 0 is the null handler
InitialCallbacks(descriptors) == [n \in Range(Names(descriptors)) |-> 0]

EngineSetProperty_stores(descriptors, table, member, value) ==
    LET d == Declared(descriptors, member)
    IN IF d = {}
       THEN [table |-> table, ok |-> FALSE]
       ELSE [table |-> [table EXCEPT ![member] = Stored(TheOne(d).type, value)],
             ok |-> Compatible(TheOne(d).type, value)]

\* an undeclared name or a value of another variant than the declared type:
\* nothing is stored
EngineSetProperty(descriptors, table, member, value) ==
    LET d == Declared(descriptors, member)
    IN IF d = {} \/ ~Compatible(TheOne(d).type, value)
       THEN [table |-> table, ok |-> FALSE]
       ELSE [table |-> [table EXCEPT ![member] = Stored(TheOne(d).type, value)],
             ok |-> TRUE]

EngineGetProperty(descriptors, table, member) ==
    IF Declared(descriptors, member) = {}
    THEN [ok |-> FALSE, out |-> Uninitialized]
    ELSE [ok |-> TRUE, out |-> table[member]]

(***************************************************************************)
(* Handler objects.  set_callback allocates the functor with new F and     *)
(* hands the engine its address together with the function that runs it    *)
(* and the function that deletes it.  heap[data] is the object at address  *)
(* data.                                                                   *)
(***************************************************************************)
\* the functors of the host: "echo" returns its first argument (Void when
\* there is none), "done" returns the string "done"
Functors == {"echo", "done"}

CallFunctor(F, args) ==
    IF F = "echo"
    THEN (IF Len(args) > 0 THEN args[1] ELSE ValueVoid)
    ELSE ValueString("done")

\* new F(std::move(callback))
New(hp, F) == Append(hp, [F |-> F, state |-> "live", deleted |-> 0])

Delete_leaked(hp, data) == hp

\* [](void *data) { delete reinterpret_cast<F *>(data); }
Delete(hp, data) ==
    [hp EXCEPT ![data].state = "deleted", ![data].deleted = @ + 1]

actual_cb_void(hp, data, args) == [ran |-> <<data>>, ret |-> ValueVoid]

\* the lambda actual_cb of set_callback and set_global_callback
actual_cb(hp, data, args) ==
    [ran |-> <<data>>, ret |-> CallFunctor(hp[data].F, args)]

EngineSetCallback_first(descriptors, table, hp, member, data) ==
    IF Declared(descriptors, member) = {}
    THEN [table |-> table, heap |-> Delete(hp, data), ok |-> FALSE]
    ELSE IF table[member] # 0
         THEN [table |-> table, heap |-> Delete(hp, data), ok |-> TRUE]
         ELSE [table |-> [table EXCEPT ![member] = data], heap |-> hp, ok |-> TRUE]

\* an undeclared name: the handler is dropped and nothing is registered;
\* otherwise the handler replaces the one registered before, which is dropped
EngineSetCallback(descriptors, table, hp, member, data) ==
    IF Declared(descriptors, member) = {}
    THEN [table |-> table, heap |-> Delete(hp, data), ok |-> FALSE]
    ELSE [table |-> [table EXCEPT ![member] = data],
          heap |-> IF table[member] # 0 THEN Delete(hp, table[member]) ELSE hp,
          ok |-> TRUE]

EngineInvokeCallback(descriptors, table, hp, member, args) ==
    LET d == Declared(descriptors, member)
    IN IF d = {} \/ ~ArgsMatch(TheOne(d).args, args)
       THEN [ok |-> FALSE, out |-> Uninitialized, ran |-> << >>]
       ELSE IF table[member] = 0
            THEN [ok |-> TRUE, out |-> DefaultValue(TheOne(d).ret), ran |-> << >>]
            ELSE LET c == actual_cb(hp, table[member], args)
                 IN [ok |-> TRUE, out |-> c.ret, ran |-> c.ran]

(***************************************************************************)
(* Engine: component instance.  The instance holds the properties and the  *)
(* handler table of the component and of every global, exported or not;    *)
(* the entry points reach a global only through FindGlobal.                *)
(***************************************************************************)
slint_interpreter_component_instance_create(inner) ==
    [component |-> inner,
     properties |-> InitialProperties(inner.properties),
     callbacks |-> InitialCallbacks(inner.callbacks),
     globals |-> [g \in Range(Names(inner.globals)) |->
                    LET d == TheOne(Declared(inner.globals, g))
                    IN [properties |-> InitialProperties(d.properties),
                        callbacks |-> InitialCallbacks(d.callbacks)]]]

slint_interpreter_component_instance_set_property(inst, member, value) ==
    LET r == EngineSetProperty(inst.component.properties, inst.properties, member, value)
    IN [inst |-> [inst EXCEPT !.properties = r.table], ok |-> r.ok]

slint_interpreter_component_instance_get_property(inst, member) ==
    EngineGetProperty(inst.component.properties, inst.properties, member)

slint_interpreter_component_instance_invoke_callback(inst, hp, member, args) ==
    EngineInvokeCallback(inst.component.callbacks, inst.callbacks, hp, member, args)

slint_interpreter_component_instance_set_callback(inst, hp, member, data) ==
    LET r == EngineSetCallback(inst.component.callbacks, inst.callbacks, hp, member, data)
    IN [inst |-> [inst EXCEPT !.callbacks = r.table], heap |-> r.heap, ok |-> r.ok]

slint_interpreter_component_instance_set_global_property(inst, global, member, value) ==
    LET found == FindGlobal(inst.component, global)
    IN IF found = {}
       THEN [inst |-> inst, ok |-> FALSE]
       ELSE LET r == EngineSetProperty(TheOne(found).properties,
                                       inst.globals[global].properties, member, value)
            IN [inst |-> [inst EXCEPT !.globals[global].properties = r.table],
                ok |-> r.ok]

slint_interpreter_component_instance_get_global_property(inst, global, member) ==
    LET found == FindGlobal(inst.component, global)
    IN IF found = {}
       THEN [ok |-> FALSE, out |-> Uninitialized]
       ELSE EngineGetProperty(TheOne(found).properties,
                              inst.globals[global].properties, member)

slint_interpreter_component_instance_set_global_callback(inst, hp, global, member, data) ==
    LET found == FindGlobal(inst.component, global)
    IN IF found = {}
       THEN [inst |-> inst, heap |-> Delete(hp, data), ok |-> FALSE]
       ELSE LET r == EngineSetCallback(TheOne(found).callbacks,
                                       inst.globals[global].callbacks, hp, member, data)
            IN [inst |-> [inst EXCEPT !.globals[global].callbacks = r.table],
                heap |-> r.heap, ok |-> r.ok]

slint_interpreter_component_instance_invoke_global_callback(inst, hp, global, member, args) ==
    LET found == FindGlobal(inst.component, global)
    IN IF found = {}
       THEN [ok |-> FALSE, out |-> Uninitialized, ran |-> << >>]
       ELSE EngineInvokeCallback(TheOne(found).callbacks,
                                 inst.globals[global].callbacks, hp, member, args)

(***************************************************************************)
(* ComponentInstance (slint_interpreter.h)                                 *)
(***************************************************************************)
set_property_true(inst, member, value) ==
    LET r == slint_interpreter_component_instance_set_property(inst, member, value)
    IN [inst |-> r.inst, value |-> TRUE]

\* ComponentInstance::set_property
set_property(inst, member, value) ==
    LET r == slint_interpreter_component_instance_set_property(inst, member, value)
    IN [inst |-> r.inst, value |-> r.ok]

get_property_binding(inst, member) ==
    LET r == slint_interpreter_component_instance_get_property(inst, member)
    IN IF r.ok THEN Some(ValueBinding(member)) ELSE None

\* ComponentInstance::get_property
get_property(inst, member) ==
    LET r == slint_interpreter_component_instance_get_property(inst, member)
    IN IF r.ok THEN Some(r.out) ELSE None

invoke_callback_unchecked(inst, hp, member, args) ==
    LET r == slint_interpreter_component_instance_invoke_callback(inst, hp, member, args)
    IN [value |-> Some(r.out), ran |-> r.ran]

\* ComponentInstance::invoke_callback
invoke_callback(inst, hp, member, args) ==
    LET r == slint_interpreter_component_instance_invoke_callback(inst, hp, member, args)
    IN [value |-> IF r.ok THEN Some(r.out) ELSE None, ran |-> r.ran]

set_callback_true(inst, hp, member, F) ==
    LET data == Len(hp) + 1
        r == slint_interpreter_component_instance_set_callback(
                 inst, New(hp, F), member, data)
    IN [inst |-> r.inst, heap |-> r.heap, value |-> TRUE]

\* ComponentInstance::set_callback
set_callback(inst, hp, member, F) ==
    LET data == Len(hp) + 1
        r == slint_interpreter_component_instance_set_callback(
                 inst, New(hp, F), member, data)
    IN [inst |-> r.inst, heap |-> r.heap, value |-> r.ok]

set_global_property_swapped(inst, global, prop_name, value) ==
    LET r == slint_interpreter_component_instance_set_global_property(
                 inst, prop_name, global, value)
    IN [inst |-> r.inst, value |-> r.ok]

\* ComponentInstance::set_global_property
set_global_property(inst, global, prop_name, value) ==
    LET r == slint_interpreter_component_instance_set_global_property(
                 inst, global, prop_name, value)
    IN [inst |-> r.inst, value |-> r.ok]

\* ComponentInstance::get_global_property
get_global_property(inst, global, prop_name) ==
    LET r == slint_interpreter_component_instance_get_global_property(
                 inst, global, prop_name)
    IN IF r.ok THEN Some(r.out) ELSE None

\* ComponentInstance::set_global_callback
set_global_callback(inst, hp, global, member, F) ==
    LET data == Len(hp) + 1
        r == slint_interpreter_component_instance_set_global_callback(
                 inst, New(hp, F), global, member, data)
    IN [inst |-> r.inst, heap |-> r.heap, value |-> r.ok]

\* ComponentInstance::invoke_global_callback
invoke_global_callback(inst, hp, global, callback_name, args) ==
    LET r == slint_interpreter_component_instance_invoke_global_callback(
                 inst, hp, global, callback_name, args)
    IN [value |-> IF r.ok THEN Some(r.out) ELSE None, ran |-> r.ran]

\* ComponentDefinition::create
create(inner) == slint_interpreter_component_instance_create(inner)

(***************************************************************************)
(* The host.  Each action is one call of the API; ret records the call     *)
(* and what it returned.                                                   *)
(***************************************************************************)
NoInstance == [component |-> NoComponent]
NoCall == [op |-> "none"]

\* names and values the host passes
PropertyNames == {"hello", "count", "foo", "missing"}
CallbackNames == {"foo", "clicked", "hello", "missing"}
GlobalNames == {"TheGlobal", "Internal", "hello"}
QueriedGlobals == {"TheGlobal", "Internal", "Empty", "App"}
GlobalMembers == {"hello", "secret", "to_uppercase", "ping", "TheGlobal"}
Values == {ValueString("world"), ValueNumber(5), ValueNumber(84)}
ArgLists == { << >>,
              << ValueString("Hello"), ValueNumber(84) >>,
              << ValueNumber(84), ValueString("Hello") >>,
              << ValueString("Hello") >> }

\* reading a Value the host holds
Read(value, inst) ==
    IF value.type = "Binding" THEN inst.properties[value.path] ELSE value

\* the host has made no Value and no Struct of its own
NoValues ==
    /\ hostValue = ValueVoid
    /\ datum = [kind |-> "none"]
    /\ hostStruct = << >>
    /\ fields = << >>

\* the host has made no Model
NoModel ==
    /\ hostModel = [rows |-> << >>, writable |-> FALSE]
    /\ wrapper = [made |-> FALSE]
    /\ notified = << >>
    /\ array = None

\* no instance, hence no window
NoWindow == [state |-> "None", handles |-> 0]

\* the window of an instance that create() just returned: one handle owns
\* the instance, the window was never shown
CreatedWindow == [state |-> "Created", handles |-> 1]

----------------------------------------------------------------------------
(* ComponentCompiler and ComponentDefinition *)

InitCompiler ==
    /\ compiler = slint_interpreter_component_compiler_new
    /\ definition = None
    /\ log = << >>
    /\ ret = NoCall
    /\ instance = NoInstance
    /\ heap = << >>
    /\ ran = << >>
    /\ held = None
    /\ registered = << >>
    /\ NoValues
    /\ NoModel
    /\ window = NoWindow
    /\ pc = "idle"

BuildFromSource(source_code) ==
    /\ Len(log) < MaxBuilds
    /\ LET r == build_from_source(compiler, source_code, "inline.slint", Len(log) + 1)
       IN /\ compiler' = r.inner
          /\ definition' = r.value
          /\ log' = Append(log, [input |-> Compile(source_code), ok |-> r.value.has])
          /\ ret' = [op |-> "build_from_source", value |-> r.value]
    /\ UNCHANGED <<otherVars, instanceVars>>

BuildFromPath(path) ==
    /\ Len(log) < MaxBuilds
    /\ LET r == build_from_path(compiler, path, Len(log) + 1)
       IN /\ compiler' = r.inner
          /\ definition' = r.value
          /\ log' = Append(log,
                       [input |-> IF FileExists(path)
                                  THEN Compile(FileContent(path))
                                  ELSE [component |-> NoComponent,
                                        diagnostics |-> << Error("could not load file") >>],
                        ok |-> r.value.has])
          /\ ret' = [op |-> "build_from_path", value |-> r.value]
    /\ UNCHANGED <<otherVars, instanceVars>>

Diagnostics ==
    /\ ret' = [op |-> "diagnostics", value |-> diagnostics(compiler)]
    /\ UNCHANGED <<otherVars, compilerVars, instanceVars>>

Globals ==
    /\ definition.has
    /\ ret' = [op |-> "globals", value |-> globals(definition.value)]
    /\ UNCHANGED <<otherVars, compilerVars, instanceVars>>

GlobalProperties(global_name) ==
    /\ definition.has
    /\ ret' = [op |-> "global_properties", global |-> global_name,
               value |-> global_properties(definition.value, global_name)]
    /\ UNCHANGED <<otherVars, compilerVars, instanceVars>>

GlobalCallbacks(global_name) ==
    /\ definition.has
    /\ ret' = [op |-> "global_callbacks", global |-> global_name,
               value |-> global_callbacks(definition.value, global_name)]
    /\ UNCHANGED <<otherVars, compilerVars, instanceVars>>

NextCompiler ==
    \/ \E source_code \in Sources : BuildFromSource(source_code)
    \/ \E path \in Paths : BuildFromPath(path)
    \/ Diagnostics
    \/ Globals
    \/ \E global_name \in QueriedGlobals : GlobalProperties(global_name)
    \/ \E global_name \in QueriedGlobals : GlobalCallbacks(global_name)

SpecCompiler == InitCompiler /\ [][NextCompiler]_vars

----------------------------------------------------------------------------
(* ComponentInstance *)

\* the instance of a component that compiled: the host built the source,
\* got a Definition and called create() on it
InitInstance ==
    \E source_code \in Sources :
        LET r == build_from_source(slint_interpreter_component_compiler_new,
                                   source_code, "inline.slint", 1)
        IN /\ r.value.has
           /\ compiler = r.inner
           /\ definition = r.value
           /\ log = << [input |-> Compile(source_code), ok |-> TRUE] >>
           /\ ret = NoCall
           /\ instance = create(r.value.value)
           /\ heap = << >>
           /\ ran = << >>
           /\ held = None
           /\ registered = << >>
           /\ NoValues
           /\ NoModel
           /\ window = CreatedWindow
           /\ pc = "idle"

SetProperty(member, value) ==
    /\ LET r == set_property(instance, member, value)
       IN /\ instance' = r.inst
          /\ ret' = [op |-> "set_property", global |-> "", member |-> member,
                     input |-> value, value |-> r.value]
    /\ ran' = << >>
    /\ UNCHANGED <<otherVars, compilerVars, heap, held, registered>>

\* the host keeps the Value it got
GetProperty(member) ==
    /\ LET r == get_property(instance, member)
       IN /\ ret' = [op |-> "get_property", global |-> "", member |-> member,
                     value |-> r]
          /\ held' = IF r.has
                     THEN Some([member |-> member, value |-> r.value,
                                was |-> instance.properties[member]])
                     ELSE held
    /\ ran' = << >>
    /\ UNCHANGED <<otherVars, compilerVars, instance, heap, registered>>

InvokeCallback(member, args) ==
    /\ LET r == invoke_callback(instance, heap, member, args)
       IN /\ ret' = [op |-> "invoke_callback", global |-> "", member |-> member,
                     input |-> args, value |-> r.value]
          /\ ran' = r.ran
    /\ UNCHANGED <<otherVars, compilerVars, instance, heap, held, registered>>

SetCallback(member, F) ==
    /\ Len(heap) < MaxHandlers
    /\ LET r == set_callback(instance, heap, member, F)
       IN /\ instance' = r.inst
          /\ heap' = r.heap
          /\ ret' = [op |-> "set_callback", global |-> "", member |-> member,
                     input |-> Len(heap) + 1, value |-> r.value]
          /\ registered' = IF r.value
                            THEN Append(registered, [global |-> "", member |-> member,
                                                     data |-> Len(heap) + 1])
                            ELSE registered
    /\ ran' = << >>
    /\ UNCHANGED <<otherVars, compilerVars, held>>

SetGlobalProperty(global, member, value) ==
    /\ LET r == set_global_property(instance, global, member, value)
       IN /\ instance' = r.inst
          /\ ret' = [op |-> "set_global_property", global |-> global,
                     member |-> member, input |-> value, value |-> r.value]
    /\ ran' = << >>
    /\ UNCHANGED <<otherVars, compilerVars, heap, held, registered>>

GetGlobalProperty(global, member) ==
    /\ ret' = [op |-> "get_global_property", global |-> global, member |-> member,
               value |-> get_global_property(instance, global, member)]
    /\ ran' = << >>
    /\ UNCHANGED <<otherVars, compilerVars, instance, heap, held, registered>>

SetGlobalCallback(global, member, F) ==
    /\ Len(heap) < MaxHandlers
    /\ LET r == set_global_callback(instance, heap, global, member, F)
       IN /\ instance' = r.inst
          /\ heap' = r.heap
          /\ ret' = [op |-> "set_global_callback", global |-> global,
                     member |-> member, input |-> Len(heap) + 1, value |-> r.value]
          /\ registered' = IF r.value
                            THEN Append(registered, [global |-> global, member |-> member,
                                                     data |-> Len(heap) + 1])
                            ELSE registered
    /\ ran' = << >>
    /\ UNCHANGED <<otherVars, compilerVars, held>>

InvokeGlobalCallback(global, member, args) ==
    /\ LET r == invoke_global_callback(instance, heap, global, member, args)
       IN /\ ret' = [op |-> "invoke_global_callback", global |-> global,
                     member |-> member, input |-> args, value |-> r.value]
          /\ ran' = r.ran
    /\ UNCHANGED <<otherVars, compilerVars, instance, heap, held, registered>>

NextProperties ==
    \/ \E member \in PropertyNames, value \in Values : SetProperty(member, value)
    \/ \E member \in PropertyNames : GetProperty(member)

NextCallbacks ==
    \/ \E member \in CallbackNames, args \in ArgLists : InvokeCallback(member, args)
    \/ \E member \in CallbackNames, F \in Functors : SetCallback(member, F)

NextGlobals ==
    \/ \E global \in GlobalNames, member \in GlobalMembers, value \in Values :
           SetGlobalProperty(global, member, value)
    \/ \E global \in GlobalNames, member \in GlobalMembers :
           GetGlobalProperty(global, member)
    \/ \E global \in GlobalNames, member \in GlobalMembers, F \in Functors :
           SetGlobalCallback(global, member, F)
    \/ \E global \in GlobalNames, member \in GlobalMembers, args \in ArgLists :
           InvokeGlobalCallback(global, member, args)

\* property access on one instance
SpecProperties == InitInstance /\ [][NextProperties]_vars

\* callback registration and invocation on one instance
SpecCallbacks == InitInstance /\ [][NextCallbacks]_vars

\* the global-singleton variants on one instance
SpecGlobals == InitInstance /\ [][NextGlobals]_vars

----------------------------------------------------------------------------
(* Properties of the compiler pipeline, under SpecCompiler *)

IsBuild(call) == call.op \in {"build_from_source", "build_from_path"}

LastBuild == log[Len(log)]

\* C1: after any sequence of build_from_source / build_from_path calls,
\* diagnostics() holds exactly the diagnostics the most recent call produced,
\* and none that an earlier call produced.
C1_DiagnosticsOfLastBuildOnly ==
    /\ \A i \in DOMAIN diagnostics(compiler) : diagnostics(compiler)[i].build = Len(log)
    /\ Len(log) > 0 =>
           diagnostics(compiler) = Produced(LastBuild.input.diagnostics, Len(log))
    /\ ret.op = "diagnostics" =>
           \A i \in DOMAIN ret.value : ret.value[i].build = Len(log)

\* two builds that both produced diagnostics, then diagnostics()
C1_Witness ==
    /\ Len(log) >= 2
    /\ log[Len(log) - 1].input.diagnostics # << >>
    /\ LastBuild.input.diagnostics # << >>
    /\ LastBuild.input # log[Len(log) - 1].input
    /\ ret.op = "diagnostics"
    /\ ret.value # << >>

\* C2: a build_* call returns a Definition iff the compilation produced no
\* diagnostic of severity error; warnings alone do not prevent it.
C2_DefinitionIffNoError ==
    /\ \A i \in DOMAIN log : log[i].ok <=> ~HasError(log[i].input.diagnostics)
    /\ IsBuild(ret) =>
           /\ ret.value.has <=> ~HasError(diagnostics(compiler))
           /\ ret.value.has = LastBuild.ok
           /\ ret.value.has => ret.value.value = LastBuild.input.component

\* a build that produced a warning and returned a Definition
C2_Witness ==
    /\ IsBuild(ret)
    /\ ret.value.has
    /\ diagnostics(compiler) # << >>

\* C3: a build_* call that returns no Definition leaves diagnostics()
\* non-empty, and a later build_* call with valid input on the same compiler
\* returns a Definition.
C3_FailureThenReusable ==
    /\ (IsBuild(ret) /\ ~ret.value.has) => diagnostics(compiler) # << >>
    /\ (Len(log) > 0 /\ ~LastBuild.ok) => HasError(diagnostics(compiler))
    /\ (/\ IsBuild(ret)
        /\ \E i \in 1..(Len(log) - 1) : ~log[i].ok
        /\ ~HasError(LastBuild.input.diagnostics))
       => /\ ret.value.has
          /\ definition = ret.value
          /\ ret.value.value = LastBuild.input.component

\* a failed build followed by a successful one
C3_Witness ==
    /\ Len(log) >= 2
    /\ ~log[Len(log) - 1].ok
    /\ IsBuild(ret)
    /\ ret.value.has

\* C10: global_properties(g) and global_callbacks(g) return an empty
\* optional iff g is not in globals(); for a name in globals() they return
\* the list of the global's properties or callbacks, which may be empty.
C10_GlobalIntrospection ==
    (ret.op \in {"global_properties", "global_callbacks"}) =>
        /\ ~ret.value.has <=> ret.global \notin Range(globals(definition.value))
        /\ \A g \in Range(AllGlobals(definition.value)) :
               (g.name = ret.global /\ ret.value.has) =>
                   /\ g.exported
                   /\ ret.op = "global_properties" =>
                          ret.value.value = PropertyDescriptors(g.properties)
                   /\ ret.op = "global_callbacks" =>
                          ret.value.value = Names(g.callbacks)

\* the exported global that declares nothing: a present, empty list
C10_Witness ==
    /\ ret.op = "global_callbacks"
    /\ ret.global \in Range(globals(definition.value))
    /\ ret.value = Some(<< >>)

----------------------------------------------------------------------------
(* Properties of the instance surface *)

\* the descriptor of a name in a list returned by properties() or
\* global_properties(), as a set of at most one element
Descriptor(descriptors, member) ==
    {d \in Range(descriptors) : d.property_name = member}

IntegralPart(value, of) ==
    /\ value.halves % 2 = 0
    /\ value.halves <= of.halves
    /\ of.halves - value.halves < 2

\* C4 (SpecProperties): set_property(name, v) returns false for a name that
\* properties() does not list and for a v whose variant does not fit the
\* declared type; otherwise it returns true and get_property(name) then
\* returns a value of v's variant: v itself for a string, the integral part
\* of v for an int.
C4_SetProperty ==
    (ret.op = "set_property") =>
        LET d == Descriptor(properties(instance.component), ret.member)
            got == get_property(instance, ret.member)
        IN /\ d = {} => ret.value = FALSE
           /\ \A p \in d :
                 IF ret.input.type # VariantOf(p.property_type)
                 THEN ret.value = FALSE
                 ELSE /\ ret.value = TRUE
                      /\ got.has
                      /\ got.value.type = ret.input.type
                      /\ p.property_type = "string" => got.value = ret.input
                      /\ p.property_type = "int" => IntegralPart(got.value, ret.input)

\* set_property("hello", "world") returned true
C4_Witness ==
    /\ ret.op = "set_property"
    /\ ret.member = "hello"
    /\ ret.input = ValueString("world")
    /\ ret.value = TRUE
    /\ get_property(instance, "hello") = Some(ValueString("world"))

\* C5 (SpecProperties): get_property(name) returns an empty optional iff
\* properties() lists no such name; otherwise it returns the current value,
\* and the Value the host got reads the same after any later set_property.
C5_GetPropertyCopy ==
    /\ (ret.op = "get_property") =>
           /\ ~ret.value.has <=>
                  Descriptor(properties(instance.component), ret.member) = {}
           /\ ret.value.has =>
                  Read(ret.value.value, instance) = instance.properties[ret.member]
    /\ held.has => Read(held.value.value, instance) = held.value.was

\* the host holds a Value of a property that a later set_property changed
C5_Witness ==
    /\ held.has
    /\ ret.op = "set_property"
    /\ ret.value = TRUE
    /\ ret.member = held.value.member
    /\ instance.properties[held.value.member] # held.value.was

\* C6 (SpecCallbacks): invoke_callback(name, args) returns an empty optional
\* iff callbacks() does not list the name or args do not match the declared
\* signature; for a name that is not listed it returns empty for every
\* argument list and runs no handler.
C6_InvokeCallbackEmpty ==
    (ret.op = "invoke_callback") =>
        LET d == Declared(instance.component.callbacks, ret.member)
            listed == ret.member \in Range(callbacks(instance.component))
        IN /\ ~ret.value.has <=>
                  (~listed \/ \A c \in d : ~ArgsMatch(c.args, ret.input))
           /\ ~listed => (~ret.value.has /\ ran = << >>)
           /\ ~ret.value.has => ran = << >>

\* a call of a name that is not a callback, with arguments, while a handler
\* is registered for another callback
C6_Witness ==
    /\ ret.op = "invoke_callback"
    /\ ret.member \notin Range(callbacks(instance.component))
    /\ ret.input # << >>
    /\ ret.value = None
    /\ \E c \in DOMAIN instance.callbacks : instance.callbacks[c] # 0

\* C7 (SpecCallbacks): set_callback(name, handler) returns false iff
\* callbacks() does not list the name, and a call that returns false leaves
\* the handler table as it was.
C7_SetCallbackFalse ==
    [][(ret'.op = "set_callback" /\ Len(heap') > Len(heap)) =>
           /\ ~ret'.value <=> ret'.member \notin Range(callbacks(instance.component))
           /\ ~ret'.value => instance' = instance]_vars

\* set_callback returned false while a handler was registered
C7_Witness ==
    /\ ret.op = "set_callback"
    /\ ret.value = FALSE
    /\ \E c \in DOMAIN instance.callbacks : instance.callbacks[c] # 0

\* the handler object of the most recent set_callback(member, ...) that
\* returned true; 0 when there was none
Latest(member) ==
    LET S == {registered[i].data : i \in
                 {j \in DOMAIN registered :
                     registered[j].global = "" /\ registered[j].member = member}}
    IN IF S = {} THEN 0 ELSE CHOOSE h \in S : \A k \in S : k <= h

\* C8 (SpecCallbacks): invoke_callback with matching arguments on a declared
\* callback runs the handler of the most recent successful set_callback for
\* it, once, within the call, and returns what that handler returned; no
\* handler registered before that one runs; with no handler registered the
\* call runs nothing and still returns a value.
C8_LatestHandlerOnce ==
    (ret.op = "invoke_callback") =>
        \A c \in Declared(instance.component.callbacks, ret.member) :
            ArgsMatch(c.args, ret.input) =>
                LET h == Latest(ret.member)
                IN IF h = 0
                   THEN ran = << >> /\ ret.value.has
                   ELSE /\ ran = << h >>
                        /\ heap[h].state = "live"
                        /\ ret.value = Some(CallFunctor(heap[h].F, ret.input))

\* the second handler registered for a callback ran, the first did not
C8_Witness ==
    /\ ret.op = "invoke_callback"
    /\ Len(registered) >= 2
    /\ registered[1].member = ret.member /\ registered[2].member = ret.member
    /\ heap[registered[1].data].F # heap[registered[2].data].F
    /\ heap[registered[1].data].state = "deleted"
    /\ ran = << registered[2].data >>
    /\ ret.value.has

GlobalPropertyOps == {"set_global_property", "get_global_property"}
GlobalCallbackOps == {"set_global_callback", "invoke_global_callback"}

Succeeded(call) ==
    IF call.op \in {"set_global_property", "set_global_callback"}
    THEN call.value = TRUE
    ELSE call.value.has

Failed(call) ==
    IF call.op \in {"set_global_property", "set_global_callback"}
    THEN call.value = FALSE
    ELSE call.value = None

\* C9 (SpecGlobals): a global-singleton operation succeeds only when the
\* global is one that globals() lists and the member is one that
\* global_properties / global_callbacks lists for it; when either does not
\* resolve the call returns false or an empty optional and runs no handler;
\* the state of a global that is not exported never changes.
C9_GlobalsResolve ==
    LET def == instance.component
        gp == global_properties(def, ret.global)
        gc == global_callbacks(def, ret.global)
        resolves ==
            /\ ret.global \in Range(globals(def))
            /\ ret.op \in GlobalPropertyOps =>
                   (gp.has /\ Descriptor(gp.value, ret.member) # {})
            /\ ret.op \in GlobalCallbackOps =>
                   (gc.has /\ ret.member \in Range(gc.value))
    IN /\ (ret.op \in GlobalPropertyOps \cup GlobalCallbackOps) =>
              /\ Succeeded(ret) => resolves
              /\ ~resolves => (Failed(ret) /\ ran = << >>)
       /\ \A g \in Range(AllGlobals(def)) :
              ~g.exported => instance.globals[g.name] = create(def).globals[g.name]

\* a call on the global that is not exported, with a member and arguments
\* that exist inside it
C9_Witness ==
    /\ ret.op = "invoke_global_callback"
    /\ ret.global = "Internal"
    /\ ret.member = "ping"
    /\ ret.input = << >>
    /\ ret.value = None
    /\ \E i \in DOMAIN registered : registered[i].global = "TheGlobal"

----------------------------------------------------------------------------
(***************************************************************************)
(* Value and Struct marshalling (spec.md section 4.1)                      *)
(***************************************************************************)

\* a pointer the engine returns: null, or the address of a payload
nullptr == [null |-> TRUE]
PointerTo(target) == [null |-> FALSE, target |-> target]

\* static_cast<double>(value) of an int, in halves
static_cast_double(i) == 2 * i

\* the integral part of a double, in halves
Truncated(h) == (h \div 2) * 2

(* Engine: Struct.  A Struct is a list of fields; its order carries no     *)
(* meaning.  Names are unique: set_field replaces the value of a field     *)
(* that is present and adds a field that is absent.                        *)
slint_interpreter_struct_new == << >>

slint_interpreter_struct_clone(other) == other

FieldIndex(inner, field) == {i \in DOMAIN inner : inner[i].k = field}

slint_interpreter_struct_get_field(inner, field) ==
    LET at == FieldIndex(inner, field)
    IN IF at = {} THEN nullptr ELSE PointerTo(inner[TheOne(at)].v)

slint_interpreter_struct_set_field(inner, field, v) ==
    LET at == FieldIndex(inner, field)
    IN IF at = {}
       THEN Append(inner, [k |-> field, v |-> v])
       ELSE [inner EXCEPT ![TheOne(at)].v = v]

(* Engine: construction of a Value is lossless; the payload is stored      *)
(* under the variant of the constructor.                                   *)
slint_interpreter_value_new_brush(brush) == [type |-> "Brush", brush |-> brush]
slint_interpreter_value_new_struct(struc) ==
    [type |-> "Struct", struc |-> slint_interpreter_struct_clone(struc)]
slint_interpreter_value_new_image(img) == [type |-> "Image", img |-> img]
slint_interpreter_value_new_array_model(a) ==
    [type |-> "Model", backing |-> "array", rows |-> a]
slint_interpreter_value_type(inner) == inner.type

(* Engine: the extractors return the address of the payload when the       *)
(* Value holds the variant asked for, and null otherwise.                  *)
slint_interpreter_value_to_number(inner) ==
    IF inner.type = "Number" THEN PointerTo(inner.halves) ELSE nullptr
slint_interpreter_value_to_string(inner) ==
    IF inner.type = "String" THEN PointerTo(inner.str) ELSE nullptr
slint_interpreter_value_to_bool(inner) ==
    IF inner.type = "Bool" THEN PointerTo(inner.bool) ELSE nullptr
slint_interpreter_value_to_brush(inner) ==
    IF inner.type = "Brush" THEN PointerTo(inner.brush) ELSE nullptr
slint_interpreter_value_to_struct(inner) ==
    IF inner.type = "Struct" THEN PointerTo(inner.struc) ELSE nullptr
slint_interpreter_value_to_image(inner) ==
    IF inner.type = "Image" THEN PointerTo(inner.img) ELSE nullptr

(* Value (slint_interpreter.h) *)

\* Value::Value(int)
ValueInt(i) == ValueNumber(static_cast_double(i))
\* Value::Value(const slint::Brush &)
ValueBrush(brush) == slint_interpreter_value_new_brush(brush)
\* Value::Value(const Struct &)
ValueStruct(struc) == slint_interpreter_value_new_struct(struc)
\* Value::Value(const Image &)
ValueImage(img) == slint_interpreter_value_new_image(img)
\* Value::Value(const SharedVector<Value> &)
ValueArray(a) == slint_interpreter_value_new_array_model(a)

\* Value::type
type(inner) == slint_interpreter_value_type(inner)

to_number_integral(inner) ==
    LET number == slint_interpreter_value_to_number(inner)
    IN IF ~number.null THEN Some(Truncated(number.target)) ELSE None

\* Value::to_number
to_number(inner) ==
    LET number == slint_interpreter_value_to_number(inner)
    IN IF ~number.null THEN Some(number.target) ELSE None

\* Value::to_string
to_string(inner) ==
    LET str == slint_interpreter_value_to_string(inner)
    IN IF ~str.null THEN Some(str.target) ELSE None

to_bool_of_number(inner) ==
    LET b == slint_interpreter_value_to_number(inner)
    IN IF ~b.null THEN Some(b.target) ELSE None

\* Value::to_bool
to_bool(inner) ==
    LET b == slint_interpreter_value_to_bool(inner)
    IN IF ~b.null THEN Some(b.target) ELSE None

\* Value::to_brush
to_brush(inner) ==
    LET brush == slint_interpreter_value_to_brush(inner)
    IN IF ~brush.null THEN Some(brush.target) ELSE None

\* Value::to_struct
to_struct(inner) ==
    LET opaque_struct == slint_interpreter_value_to_struct(inner)
    IN IF ~opaque_struct.null
       THEN Some(slint_interpreter_struct_clone(opaque_struct.target))
       ELSE None

\* Value::to_image
to_image(inner) ==
    LET img == slint_interpreter_value_to_image(inner)
    IN IF ~img.null THEN Some(img.target) ELSE None

(***************************************************************************)
(* Integer widths.  The engine passes rows as uintptr_t, the host model    *)
(* takes and returns int.  Both are modelled narrower than they are, int   *)
(* remaining the narrower of the two: IntBits stands for the 32 bits of    *)
(* int, UintptrBits for the 64 bits of uintptr_t.                          *)
(***************************************************************************)
IntBits == 3
UintptrBits == 5

Pow2(n) == IF n < 1 THEN 1 ELSE 2 ^ n

INT_MAX == Pow2(IntBits - 1) - 1
UINTPTR_MAX == Pow2(UintptrBits) - 1

\* int(row) : the conversion of a uintptr_t to int keeps the low bits
int(row) ==
    LET low == row % Pow2(IntBits)
    IN IF low > INT_MAX THEN low - Pow2(IntBits) ELSE low

\* the conversion of an int to uintptr_t
uintptr_t(n) == n % Pow2(UintptrBits)

(***************************************************************************)
(* The host's slint::Model<Value> (spec.md section 4.2): a backing         *)
(* sequence S, rows numbered from 0.  A model that is not writable keeps   *)
(* the default set_row_data, which does nothing.  Every mutation emits the *)
(* matching notification to the peers attached to the model.               *)
(***************************************************************************)
Notification(kind, index, count) == [kind |-> kind, index |-> index, count |-> count]

Model_row_count(m) == Len(m.rows)

Model_row_data(m, i) ==
    IF 0 <= i /\ i < Len(m.rows) THEN Some(m.rows[i + 1]) ELSE None

\* the rows after the call, and the notifications the model emitted
Model_set_row_data(m, i, v) ==
    IF m.writable /\ 0 <= i /\ i < Len(m.rows)
    THEN [model |-> [m EXCEPT !.rows[i + 1] = v],
          emitted |-> << Notification("row_changed", i, 0) >>]
    ELSE [model |-> m, emitted |-> << >>]

Model_push_back(m, v) ==
    [model |-> [m EXCEPT !.rows = Append(@, v)],
     emitted |-> << Notification("row_added", Len(m.rows), 1) >>]

Model_erase(m, i) ==
    [model |-> [m EXCEPT !.rows = SubSeq(@, 1, i) \o SubSeq(@, i + 2, Len(@))],
     emitted |-> << Notification("row_removed", i, 1) >>]

Model_set_vector(m, a) ==
    [model |-> [m EXCEPT !.rows = a],
     emitted |-> << Notification("reset", 0, 0) >>]

(***************************************************************************)
(* Engine: the notifier of a model records what it is told.                *)
(***************************************************************************)
slint_interpreter_model_notify_row_added(index, count) ==
    Notification("row_added", index, count)
slint_interpreter_model_notify_row_changed(index) ==
    Notification("row_changed", index, 0)
slint_interpreter_model_notify_row_removed(index, count) ==
    Notification("row_removed", index, count)
slint_interpreter_model_notify_reset == Notification("reset", 0, 0)

(***************************************************************************)
(* ModelWrapper and the ModelAdaptorVTable of                              *)
(* Value::Value(const std::shared_ptr<slint::Model<Value>> &)              *)
(***************************************************************************)
\* ModelWrapper::row_added
ModelWrapper_row_added(index, count) ==
    slint_interpreter_model_notify_row_added(index, count)

\* ModelWrapper::row_changed
ModelWrapper_row_changed(index) ==
    slint_interpreter_model_notify_row_changed(index)

ModelWrapper_row_removed_swapped(index, count) ==
    slint_interpreter_model_notify_row_removed(count, index)

\* ModelWrapper::row_removed
ModelWrapper_row_removed(index, count) ==
    slint_interpreter_model_notify_row_removed(index, count)

\* ModelWrapper::reset
ModelWrapper_reset == slint_interpreter_model_notify_reset

\* the model calls the listener method that matches the notification
Deliver(n) ==
    CASE n.kind = "row_added" -> ModelWrapper_row_added(n.index, n.count)
      [] n.kind = "row_changed" -> ModelWrapper_row_changed(n.index)
      [] n.kind = "row_removed" -> ModelWrapper_row_removed(n.index, n.count)
      [] OTHER -> ModelWrapper_reset

\* what the engine's notifier receives for the notifications a model
\* emitted: the model holds its peers weakly and reaches the wrapper only
\* while it exists
Forwarded(w, emitted) ==
    IF w.made /\ w.attached /\ w.notify = "live"
    THEN [i \in DOMAIN emitted |-> Deliver(emitted[i])]
    ELSE << >>

\* ~ModelWrapper
ModelWrapper_destructor(w) ==
    [w EXCEPT !.notify = "destroyed", !.model = FALSE, !.attached = FALSE]

\* std::shared_ptr: the ModelWrapper is destroyed when the last of the
\* shared pointers to it (the constructor's local, the member self) is gone
shared_ptr_released(w) ==
    IF ~w.local /\ ~w.self /\ w.notify # "destroyed"
    THEN ModelWrapper_destructor(w)
    ELSE w

\* auto wrapper = std::make_shared<ModelWrapper>();
make_shared_ModelWrapper ==
    [made |-> TRUE, local |-> TRUE, self |-> FALSE, model |-> FALSE,
     notify |-> "uninitialized", attached |-> FALSE, refs |-> 0, at |-> "model"]

\* wrapper->model = model;
wrapper_model(w) == [w EXCEPT !.model = TRUE, !.at = "self"]

wrapper_self_unset(w) == [w EXCEPT !.at = "notify_new"]

\* wrapper->self = wrapper;
wrapper_self(w) == [w EXCEPT !.self = TRUE, !.at = "notify_new"]

\* slint_interpreter_model_notify_new(&wrapper->notify);
wrapper_notify_new(w) == [w EXCEPT !.notify = "live", !.at = "attach_peer"]

\* model->attach_peer(wrapper); the model keeps a weak pointer
attach_peer(w) == [w EXCEPT !.attached = TRUE, !.at = "value_new_model"]

\* slint_interpreter_value_new_model(wrapper.get(), &vt, &inner): the engine
\* takes its reference to the adaptor
value_new_model(w) == [w EXCEPT !.refs = 1, !.at = "return"]

\* the end of the constructor: the local shared pointer goes out of scope
constructor_return(w) ==
    shared_ptr_released([w EXCEPT !.local = FALSE, !.at = "returned"])

\* the lambda drop
drop(w) == shared_ptr_released([w EXCEPT !.self = FALSE])

\* Engine: a copy of a Value that refers to a model shares the adaptor
slint_interpreter_value_clone_model(w) == [w EXCEPT !.refs = @ + 1]

\* Engine: the adaptor is dropped with the last Value that refers to it
slint_interpreter_value_destructor_model(w) ==
    IF w.refs = 1 THEN drop([w EXCEPT !.refs = 0]) ELSE [w EXCEPT !.refs = @ - 1]

\* the lambda row_count
row_count(m) == uintptr_t(Model_row_count(m))

\* the lambda row_data
row_data(m, row) ==
    LET v == Model_row_data(m, int(row))
    IN IF v.has THEN [ok |-> TRUE, out |-> v.value]
                ELSE [ok |-> FALSE, out |-> Uninitialized]

\* the lambda set_row_data
set_row_data(m, row, v) == Model_set_row_data(m, int(row), v)

(***************************************************************************)
(* Engine: to_array serializes a model: the rows 0 .. row_count - 1 as     *)
(* they are when it is called.                                             *)
(***************************************************************************)
slint_interpreter_value_new_model == [type |-> "Model", backing |-> "adaptor"]

slint_interpreter_value_to_array(inner, m) ==
    IF inner.type # "Model"
    THEN [ok |-> FALSE, out |-> << >>]
    ELSE IF inner.backing = "array"
         THEN [ok |-> TRUE, out |-> inner.rows]
         ELSE [ok |-> TRUE,
               out |-> [i \in 1..row_count(m) |-> row_data(m, i - 1).out]]

\* a vector that still reads the rows of the model; the API never makes one
LiveView == << [type |-> "View"] >>

to_array_view(inner, m) ==
    LET r == slint_interpreter_value_to_array(inner, m)
    IN IF r.ok
       THEN (IF inner.backing = "adaptor" THEN Some(LiveView) ELSE Some(r.out))
       ELSE None

\* Value::to_array
to_array(inner, m) ==
    LET r == slint_interpreter_value_to_array(inner, m)
    IN IF r.ok THEN Some(r.out) ELSE None

----------------------------------------------------------------------------
(* Value: construction, type() and the extractors *)

\* no compiler, definition or instance takes part
NoProgram ==
    /\ compiler = slint_interpreter_component_compiler_new
    /\ definition = None
    /\ log = << >>
    /\ instance = NoInstance
    /\ heap = << >>
    /\ ran = << >>
    /\ held = None
    /\ registered = << >>

\* the data the host builds Values from; doubles and the fields of a struct
\* in halves, ints as they are
Point == slint_interpreter_struct_set_field(
             slint_interpreter_struct_set_field(slint_interpreter_struct_new,
                                                "x", ValueNumber(5)),
             "label", ValueString("p"))

HostData ==
    {[kind |-> "void"]}
    \cup {[kind |-> "double", halves |-> h] : h \in {0, 5, -3, 84}}
    \cup {[kind |-> "int", int |-> i] : i \in {0, 2, -1}}
    \cup {[kind |-> "string", str |-> str] : str \in {"", "world"}}
    \cup {[kind |-> "bool", bool |-> b] : b \in BOOLEAN}
    \cup {[kind |-> "brush", brush |-> c] : c \in {"red", "transparent"}}
    \cup {[kind |-> "image", img |-> i] : i \in {"", "logo.png"}}
    \cup {[kind |-> "struct", struc |-> st] :
              st \in {slint_interpreter_struct_new, Point}}
    \cup {[kind |-> "array", rows |-> a] :
              a \in {<< >>, << ValueBool(TRUE), ValueString("world") >>}}

\* the constructor of Value overload resolution picks for a datum
Construct(d) ==
    CASE d.kind = "void" -> ValueVoid
      [] d.kind = "double" -> ValueNumber(d.halves)
      [] d.kind = "int" -> ValueInt(d.int)
      [] d.kind = "string" -> ValueString(d.str)
      [] d.kind = "bool" -> ValueBool(d.bool)
      [] d.kind = "brush" -> ValueBrush(d.brush)
      [] d.kind = "image" -> ValueImage(d.img)
      [] d.kind = "struct" -> ValueStruct(d.struc)
      [] OTHER -> ValueArray(d.rows)

InitValue ==
    /\ NoProgram
    /\ datum \in HostData
    /\ hostValue = Construct(datum)
    /\ ret = [op |-> "construct"]
    /\ hostStruct = << >>
    /\ fields = << >>
    /\ NoModel
    /\ window = NoWindow
    /\ pc = "idle"

\* the host replaces its Value by one built from another datum
Assign(d) ==
    /\ datum' = d
    /\ hostValue' = Construct(d)
    /\ ret' = [op |-> "construct"]
    /\ UNCHANGED <<compilerVars, instanceVars, hostStruct, fields, modelVars, lifeVars>>

Returns(op, result) ==
    /\ ret' = [op |-> op, value |-> result]
    /\ UNCHANGED <<compilerVars, instanceVars, otherVars>>

ValueType == Returns("type", type(hostValue))
ValueToNumber == Returns("to_number", to_number(hostValue))
ValueToString == Returns("to_string", to_string(hostValue))
ValueToBool == Returns("to_bool", to_bool(hostValue))
ValueToBrush == Returns("to_brush", to_brush(hostValue))
ValueToStruct == Returns("to_struct", to_struct(hostValue))
ValueToImage == Returns("to_image", to_image(hostValue))
ValueToArray == Returns("to_array", to_array(hostValue, hostModel))

NextValue ==
    \/ \E d \in HostData : Assign(d)
    \/ ValueType
    \/ ValueToNumber
    \/ ValueToString
    \/ ValueToBool
    \/ ValueToBrush
    \/ ValueToStruct
    \/ ValueToImage
    \/ ValueToArray

SpecValue == InitValue /\ [][NextValue]_vars

\* the variant each extractor asks for
ExtractorVariant ==
    [to_number |-> "Number", to_string |-> "String", to_bool |-> "Bool",
     to_brush |-> "Brush", to_struct |-> "Struct", to_image |-> "Image",
     to_array |-> "Model"]

\* C11: an extractor returns a non-empty optional exactly when the Value
\* holds the variant the extractor asks for and an empty optional otherwise
\* (an optional in every case); a Void Value yields empty for every extractor.
C11_ExtractorsTypeChecked ==
    ret.op \in DOMAIN ExtractorVariant =>
        /\ ret.value.has \in BOOLEAN
        /\ ret.value.has <=> (hostValue.type = ExtractorVariant[ret.op])
        /\ hostValue = ValueVoid => ret.value = None

C11_Witness ==
    /\ ret.op = "to_bool"
    /\ hostValue.type = "Number"
    /\ ret.value = None

\* the extractor that matches each kind of datum, and the variant type()
\* reports for it
Matching ==
    [double |-> "to_number", int |-> "to_number", string |-> "to_string",
     bool |-> "to_bool", struct |-> "to_struct", brush |-> "to_brush",
     image |-> "to_image"]

VariantOfKind ==
    [double |-> "Number", int |-> "Number", string |-> "String",
     bool |-> "Bool", struct |-> "Struct", brush |-> "Brush",
     image |-> "Image"]

\* the datum as the matching extractor hands it back: an int as the double
\* of the same number (in halves), everything else as it is
Expected(d) ==
    CASE d.kind = "double" -> d.halves
      [] d.kind = "int" -> 2 * d.int
      [] d.kind = "string" -> d.str
      [] d.kind = "bool" -> d.bool
      [] d.kind = "brush" -> d.brush
      [] d.kind = "image" -> d.img
      [] OTHER -> d.struc

\* C12: a Value built from a number, string, bool, struct, brush or image
\* gives the datum back through the matching extractor and type() reports
\* the variant of the datum; an int is a Number and to_number gives the
\* same number back.
C12_RoundTrip ==
    datum.kind \in DOMAIN Matching =>
        /\ ret.op = Matching[datum.kind] => ret.value = Some(Expected(datum))
        /\ ret.op = "type" => ret.value = VariantOfKind[datum.kind]

C12_Witness ==
    /\ datum = [kind |-> "int", int |-> 2]
    /\ ret.op = "to_number"
    /\ ret.value = Some(4)

----------------------------------------------------------------------------
(* Struct: set_field and get_field *)

\* the Slice<uint8_t> over the bytes of a name: name.data(), name.size()
name_view(field) == field

get_field_folded(inner, field) ==
    LET folded == IF field = "Hello" THEN "hello" ELSE field
        value == slint_interpreter_struct_get_field(inner, name_view(folded))
    IN IF ~value.null THEN Some(value.target) ELSE None

\* Struct::get_field
get_field(inner, field) ==
    LET value == slint_interpreter_struct_get_field(inner, name_view(field))
    IN IF ~value.null THEN Some(value.target) ELSE None

\* Struct::set_field
set_field(inner, field, v) ==
    slint_interpreter_struct_set_field(inner, name_view(field), v)

\* Struct::Struct(InputIterator it, InputIterator end)
RECURSIVE StructFromRange(_, _)
StructFromRange(inner, args) ==
    IF args = << >>
    THEN inner
    ELSE StructFromRange(set_field(inner, args[1][1], args[1][2]), Tail(args))

\* Struct::Struct(std::initializer_list<std::pair<std::string_view, Value>>)
StructFromList(args) == StructFromRange(slint_interpreter_struct_new, args)

FieldNames == {"hello", "Hello", "count"}
FieldValues == {ValueNumber(5), ValueString("world")}

\* the initializer lists the host builds a Struct from
InitializerLists ==
    {<< >>,
     << <<"hello", ValueString("world")>> >>,
     << <<"count", ValueNumber(5)>>, <<"count", ValueString("world")>> >>}

\* for each name, the value of the last pair of the list that names it
LastOf(args, n) ==
    LET at == {i \in DOMAIN args : args[i][1] = n}
    IN IF at = {}
       THEN None
       ELSE Some(args[CHOOSE i \in at : \A j \in at : j <= i][2])

InitStruct ==
    /\ NoProgram
    /\ \E args \in InitializerLists :
          /\ hostStruct = StructFromList(args)
          /\ fields = [n \in FieldNames |-> LastOf(args, n)]
    /\ ret = [op |-> "construct"]
    /\ hostValue = ValueVoid
    /\ datum = [kind |-> "none"]
    /\ NoModel
    /\ window = NoWindow
    /\ pc = "idle"

StructSetField(n, v) ==
    /\ hostStruct' = set_field(hostStruct, n, v)
    /\ fields' = [fields EXCEPT ![n] = Some(v)]
    /\ ret' = [op |-> "set_field", name |-> n, input |-> v]
    /\ UNCHANGED <<compilerVars, instanceVars, hostValue, datum, modelVars, lifeVars>>

StructGetField(n) ==
    /\ ret' = [op |-> "get_field", name |-> n, value |-> get_field(hostStruct, n)]
    /\ UNCHANGED <<compilerVars, instanceVars, otherVars>>

NextStruct ==
    \/ \E n \in FieldNames, v \in FieldValues : StructSetField(n, v)
    \/ \E n \in FieldNames : StructGetField(n)

SpecStruct == InitStruct /\ [][NextStruct]_vars

\* C13: get_field(k) returns the value most recently set for k and an empty
\* optional for a name that was never set, names matching exactly; a name
\* that was set is held by one field of the Struct, and no other name is.
C13_StructFields ==
    /\ ret.op = "get_field" => ret.value = fields[ret.name]
    /\ \A n \in FieldNames :
          Cardinality(FieldIndex(hostStruct, n)) = IF fields[n].has THEN 1 ELSE 0
    /\ Len(hostStruct) = Cardinality({n \in FieldNames : fields[n].has})

C13_Witness ==
    /\ ret.op = "get_field"
    /\ ret.name = "hello"
    /\ ret.value = None
    /\ fields["Hello"] = Some(ValueNumber(5))
    /\ fields["count"] = Some(ValueString("world"))
    /\ Len(hostStruct) = 2

----------------------------------------------------------------------------
(* A host Model behind a Value: the adaptor, the notifications, to_array *)

MaxRows == 2

RowValues == {ValueInt(1), ValueInt(99)}

\* the rows the engine may ask for, and the rows the host may name
AdaptorRows == 0..UINTPTR_MAX
HostRows == -1..MaxRows

\* the ModelWrapper once the constructor has returned
ConstructedWrapper ==
    constructor_return(value_new_model(attach_peer(wrapper_notify_new(
        wrapper_self(wrapper_model(make_shared_ModelWrapper))))))

Quiet == [emitted |-> << >>, received |-> << >>]

\* the host made a model with one row and a Value from it
InitModel ==
    /\ NoProgram
    /\ hostModel \in [rows : {<< ValueInt(1) >>}, writable : BOOLEAN]
    /\ wrapper = ConstructedWrapper
    /\ hostValue = slint_interpreter_value_new_model
    /\ notified = Quiet
    /\ array = None
    /\ ret = [op |-> "construct"]
    /\ datum = [kind |-> "model"]
    /\ hostStruct = << >>
    /\ fields = << >>
    /\ window = NoWindow
    /\ pc = "idle"

\* the model changes and tells its peers
Mutated(r) ==
    /\ hostModel' = r.model
    /\ notified' = [emitted |-> r.emitted, received |-> Forwarded(wrapper, r.emitted)]

HostPushBack(v) ==
    /\ Len(hostModel.rows) < MaxRows
    /\ Mutated(Model_push_back(hostModel, v))
    /\ ret' = [op |-> "push_back"]
    /\ UNCHANGED <<compilerVars, instanceVars, valueVars, wrapper, array, lifeVars>>

HostErase(i) ==
    /\ i < Len(hostModel.rows)
    /\ Mutated(Model_erase(hostModel, i))
    /\ ret' = [op |-> "erase"]
    /\ UNCHANGED <<compilerVars, instanceVars, valueVars, wrapper, array, lifeVars>>

HostSetVector(a) ==
    /\ Mutated(Model_set_vector(hostModel, a))
    /\ ret' = [op |-> "set_vector"]
    /\ UNCHANGED <<compilerVars, instanceVars, valueVars, wrapper, array, lifeVars>>

\* the host calls set_row_data of its model
HostSetRowData(i, v) ==
    /\ Mutated(Model_set_row_data(hostModel, i, v))
    /\ ret' = [op |-> "Model::set_row_data"]
    /\ UNCHANGED <<compilerVars, instanceVars, valueVars, wrapper, array, lifeVars>>

\* the engine calls the adaptor; it can while it holds a reference to it
AdaptorRowCount ==
    /\ wrapper.made /\ wrapper.refs > 0
    /\ ret' = [op |-> "row_count", before |-> hostModel.rows,
               value |-> row_count(hostModel)]
    /\ notified' = Quiet
    /\ UNCHANGED <<compilerVars, instanceVars, valueVars, hostModel, wrapper,
                   array, lifeVars>>

AdaptorRowData(row) ==
    /\ wrapper.made /\ wrapper.refs > 0
    /\ ret' = [op |-> "row_data", row |-> row, before |-> hostModel.rows,
               value |-> row_data(hostModel, row)]
    /\ notified' = Quiet
    /\ UNCHANGED <<compilerVars, instanceVars, valueVars, hostModel, wrapper,
                   array, lifeVars>>

AdaptorSetRowData(row, v) ==
    /\ wrapper.made /\ wrapper.refs > 0
    /\ Mutated(set_row_data(hostModel, row, v))
    /\ ret' = [op |-> "set_row_data", row |-> row, input |-> v,
               before |-> hostModel.rows]
    /\ UNCHANGED <<compilerVars, instanceVars, valueVars, wrapper, array, lifeVars>>

\* the host calls to_array() on its Value and keeps the vector
ValueToArrayOfModel ==
    /\ LET r == to_array(hostValue, hostModel)
       IN array' = IF r.has
                   THEN [has |-> TRUE, value |-> r.value, before |-> hostModel.rows]
                   ELSE None
    /\ ret' = [op |-> "to_array"]
    /\ notified' = Quiet
    /\ UNCHANGED <<compilerVars, instanceVars, valueVars, hostModel, wrapper, lifeVars>>

HostMutation ==
    \/ \E v \in RowValues : HostPushBack(v)
    \/ \E i \in 0..(MaxRows - 1) : HostErase(i)
    \/ \E a \in {<< >>, << ValueInt(99) >>} : HostSetVector(a)
    \/ \E i \in HostRows, v \in RowValues : HostSetRowData(i, v)

NextModel ==
    \/ HostMutation
    \/ AdaptorRowCount
    \/ \E row \in AdaptorRows : AdaptorRowData(row)
    \/ \E row \in AdaptorRows, v \in RowValues : AdaptorSetRowData(row, v)
    \/ ValueToArrayOfModel

SpecModel == InitModel /\ [][NextModel]_vars

\* C14: row_count() is the length of S when it is called; row_data(i) is
\* S[i] for 0 <= i < len(S) and out of range (false) for every other index.
C14_AdaptorReflectsModel ==
    /\ ret.op = "row_count" => ret.value = Len(ret.before)
    /\ ret.op = "row_data" =>
          IF ret.row < Len(ret.before)
          THEN ret.value = [ok |-> TRUE, out |-> ret.before[ret.row + 1]]
          ELSE ~ret.value.ok

\* C15: set_row_data(index, v) never changes row_count(); in range on a
\* writable model it replaces that row and no other and row_changed(index)
\* is notified; out of range or on a read-only model no row changes.
C15_SetRowData ==
    ret.op = "set_row_data" =>
        /\ Len(hostModel.rows) = Len(ret.before)
        /\ IF hostModel.writable /\ ret.row < Len(ret.before)
           THEN /\ hostModel.rows = [ret.before EXCEPT ![ret.row + 1] = ret.input]
                /\ notified.received = << Notification("row_changed", ret.row, 0) >>
                /\ row_data(hostModel, ret.row) = [ok |-> TRUE, out |-> ret.input]
           ELSE hostModel.rows = ret.before

\* the change from the rows old to the rows new is the one n tells of
Matches(n, old, new) ==
    CASE n.kind = "row_added" ->
            /\ Len(new) = Len(old) + n.count
            /\ SubSeq(new, 1, n.index) = SubSeq(old, 1, n.index)
            /\ SubSeq(new, n.index + n.count + 1, Len(new))
                   = SubSeq(old, n.index + 1, Len(old))
      [] n.kind = "row_removed" ->
            /\ Len(old) = Len(new) + n.count
            /\ SubSeq(old, 1, n.index) = SubSeq(new, 1, n.index)
            /\ SubSeq(old, n.index + n.count + 1, Len(old))
                   = SubSeq(new, n.index + 1, Len(new))
      [] n.kind = "row_changed" ->
            /\ Len(new) = Len(old)
            /\ n.index \in 0..(Len(old) - 1)
            /\ \A j \in DOMAIN old : j # n.index + 1 => new[j] = old[j]
      [] OTHER -> n.kind = "reset"

\* C16: a step that changes the rows of the model emits exactly one
\* notification, of the kind and coordinates of the change, and in the same
\* step the engine's notifier receives every notification the model emitted,
\* once and unchanged.
C16_OneMatchingNotification ==
    [][/\ hostModel'.rows # hostModel.rows =>
              /\ Len(notified'.emitted) = 1
              /\ Matches(notified'.emitted[1], hostModel.rows, hostModel'.rows)
       /\ notified'.received = notified'.emitted]_vars

C16_Witness ==
    /\ ret.op = "erase"
    /\ notified.received = << Notification("row_removed", 0, 1) >>
    /\ Len(hostModel.rows) = 1

\* the elements the host reads from a vector
Elements(vec) == IF vec = LiveView THEN hostModel.rows ELSE vec

\* C18: the vector to_array() returned holds the rows of the model, in
\* order, as they were when it was called, whatever happened to the model
\* since.
C18_ToArraySnapshot ==
    array.has => Elements(array.value) = array.before

C18_Witness ==
    /\ array.has
    /\ array.value = << ValueInt(1), ValueInt(99) >>
    /\ hostModel.rows = << ValueInt(99) >>
    /\ ret.op = "set_row_data"

----------------------------------------------------------------------------
(* The lifetime of the ModelWrapper and of the notifier it contains *)

MaxCopies == 2

\* the host has a model and has made no Value from it yet
InitModelLifetime ==
    /\ NoProgram
    /\ hostModel \in [rows : {<< ValueInt(1) >>}, writable : BOOLEAN]
    /\ wrapper = [made |-> FALSE]
    /\ hostValue = ValueVoid
    /\ notified = Quiet
    /\ array = None
    /\ ret = [op |-> "construct"]
    /\ datum = [kind |-> "model"]
    /\ hostStruct = << >>
    /\ fields = << >>
    /\ window = NoWindow
    /\ pc = "idle"

\* Value::Value(const std::shared_ptr<slint::Model<Value>> &), statement by
\* statement; the host does nothing else until the constructor has returned
Statement(at, w, v) ==
    /\ IF wrapper.made
       THEN IF at = "make_shared"
            THEN wrapper.at = "returned" /\ wrapper.refs = 0
            ELSE wrapper.at = at
       ELSE at = "make_shared"
    /\ wrapper' = w
    /\ hostValue' = v
    /\ ret' = [op |-> "Value"]
    /\ notified' = Quiet
    /\ UNCHANGED <<compilerVars, instanceVars, datum, hostStruct, fields,
                   hostModel, array, lifeVars>>

CtorMakeShared == Statement("make_shared", make_shared_ModelWrapper, hostValue)
CtorSetModel == Statement("model", wrapper_model(wrapper), hostValue)
CtorSetSelf == Statement("self", wrapper_self(wrapper), hostValue)
CtorNotifyNew == Statement("notify_new", wrapper_notify_new(wrapper), hostValue)
CtorAttachPeer == Statement("attach_peer", attach_peer(wrapper), hostValue)
CtorValueNewModel ==
    Statement("value_new_model", value_new_model(wrapper),
              slint_interpreter_value_new_model)
CtorReturn == Statement("return", constructor_return(wrapper), hostValue)

Constructed == wrapper.made /\ wrapper.at = "returned"

\* Value::Value(const Value &) on a Value that refers to the model
CopyValue ==
    /\ Constructed
    /\ wrapper.refs \in 1..(MaxCopies - 1)
    /\ wrapper' = slint_interpreter_value_clone_model(wrapper)
    /\ ret' = [op |-> "Value(const Value &)"]
    /\ notified' = Quiet
    /\ UNCHANGED <<compilerVars, instanceVars, valueVars, hostModel, array, lifeVars>>

\* Value::~Value on a Value that refers to the model
DestroyValue ==
    /\ Constructed
    /\ wrapper.refs > 0
    /\ wrapper' = slint_interpreter_value_destructor_model(wrapper)
    /\ hostValue' = IF wrapper.refs = 1 THEN ValueVoid ELSE hostValue
    /\ ret' = [op |-> "~Value"]
    /\ notified' = Quiet
    /\ UNCHANGED <<compilerVars, instanceVars, datum, hostStruct, fields,
                   hostModel, array, lifeVars>>

NextModelLifetime ==
    \/ CtorMakeShared
    \/ CtorSetModel
    \/ CtorSetSelf
    \/ CtorNotifyNew
    \/ CtorAttachPeer
    \/ CtorValueNewModel
    \/ CtorReturn
    \/ CopyValue
    \/ DestroyValue
    \/ (IF wrapper.made THEN Constructed ELSE TRUE) /\ HostMutation

SpecModelLifetime == InitModelLifetime /\ [][NextModelLifetime]_vars

\* C17: the notifier is not destroyed while the host side (the shared
\* pointer the constructor made the wrapper with) or the engine (a Value
\* that refers to the adaptor) still holds the wrapper, and it is destroyed
\* once both have let go.
C17_NotifierLifetime ==
    wrapper.made =>
        /\ wrapper.notify = "destroyed" => (~wrapper.local /\ wrapper.refs = 0)
        /\ (~wrapper.local /\ wrapper.refs = 0) => wrapper.notify = "destroyed"

C17_Witness ==
    /\ wrapper.made
    /\ ret.op = "~Value"
    /\ wrapper.notify = "destroyed"
    /\ hostValue = ValueVoid

----------------------------------------------------------------------------
(* ComponentInstance: show(), hide(), run() and the end of the instance *)

MaxOwners == 3

\* Engine: show(inst, is_visible) registers the window with the windowing
\* system or takes it off (spec.md section 3, the state machine per instance)
slint_interpreter_component_instance_show(win, is_visible) ==
    [win EXCEPT !.state = IF is_visible THEN "Shown" ELSE "Hidden"]

show_hidden(win) == slint_interpreter_component_instance_show(win, FALSE)

\* ComponentInstance::show
show(win) == slint_interpreter_component_instance_show(win, TRUE)

\* ComponentInstance::hide
hide(win) == slint_interpreter_component_instance_show(win, FALSE)

\* ComponentInstance::run, up to the event loop
run_enter(win) == show(win)

run_leave_shown(win) == win

\* ComponentInstance::run, after the event loop
run_leave(win) == hide(win)

\* ComponentHandle<ComponentInstance>: the instance is shared by its handles
\* and destroyed with the last of them
ComponentHandle_copy(win) == [win EXCEPT !.handles = @ + 1]

ComponentHandle_release(win) ==
    IF win.handles = 1
    THEN [win EXCEPT !.handles = 0, !.state = "Destroyed"]
    ELSE [win EXCEPT !.handles = @ - 1]

Alive == window.handles > 0

\* the host outside run(), or a handler the event loop runs inside run()
Show ==
    /\ Alive
    /\ window' = show(window)
    /\ ret' = [op |-> "show"]
    /\ UNCHANGED <<compilerVars, instanceVars, valueVars, modelVars, pc>>

Hide ==
    /\ Alive
    /\ window' = hide(window)
    /\ ret' = [op |-> "hide"]
    /\ UNCHANGED <<compilerVars, instanceVars, valueVars, modelVars, pc>>

\* run() is called, shows the window and enters slint_run_event_loop()
RunEnter ==
    /\ Alive
    /\ pc = "idle"
    /\ window' = run_enter(window)
    /\ pc' = "loop"
    /\ ret' = [op |-> "run: show"]
    /\ UNCHANGED <<compilerVars, instanceVars, valueVars, modelVars>>

\* the event loop is told to stop
QuitEventLoop ==
    /\ pc = "loop"
    /\ pc' = "stopping"
    /\ ret' = [op |-> "quit_event_loop"]
    /\ UNCHANGED <<compilerVars, instanceVars, valueVars, modelVars, window>>

\* slint_run_event_loop() returns; run() hides the window and returns
RunLeave ==
    /\ pc = "stopping"
    /\ window' = run_leave(window)
    /\ pc' = "idle"
    /\ ret' = [op |-> "run"]
    /\ UNCHANGED <<compilerVars, instanceVars, valueVars, modelVars>>

HandleCopy ==
    /\ Alive
    /\ window.handles < MaxOwners
    /\ window' = ComponentHandle_copy(window)
    /\ ret' = [op |-> "copy"]
    /\ UNCHANGED <<compilerVars, instanceVars, valueVars, modelVars, pc>>

\* a handle goes out of scope; the caller of run() keeps its own until
\* run() has returned
HandleRelease ==
    /\ Alive
    /\ pc # "idle" => window.handles > 1
    /\ window' = ComponentHandle_release(window)
    /\ ret' = [op |-> "release"]
    /\ UNCHANGED <<compilerVars, instanceVars, valueVars, modelVars, pc>>

NextLifecycle ==
    \/ Show
    \/ Hide
    \/ RunEnter
    \/ QuitEventLoop
    \/ RunLeave
    \/ HandleCopy
    \/ HandleRelease

SpecLifecycle == InitInstance /\ [][NextLifecycle]_vars

\* C19: show() leaves the instance Shown and hide() leaves it Hidden,
\* whatever the state before; no step leads back to Created; Destroyed is
\* entered only when the last handle is released and is never left.
C19_Lifecycle ==
    [][/\ ret'.op = "show" => window'.state = "Shown"
       /\ ret'.op = "hide" => window'.state = "Hidden"
       /\ window'.state = "Created" => window.state = "Created"
       /\ window.state = "Destroyed" => window' = window
       /\ (window'.state = "Destroyed" /\ window.state # "Destroyed") =>
              /\ ret'.op = "release"
              /\ window.handles = 1
              /\ window'.handles = 0]_vars

C19_Witness ==
    /\ window.state = "Destroyed"
    /\ ret.op = "release"
    /\ pc = "idle"

\* the instance is Shown for the whole time the event loop of run() runs
C20_ShownWhileLoopRuns == pc = "loop" => window.state = "Shown"

\* C20: run() shows the instance, then runs the event loop, then hides the
\* instance: the instance is Shown when the loop starts, run() returns only
\* after the loop was told to stop, and the instance is Hidden when run()
\* has returned.
C20_RunShowLoopHide ==
    [][/\ pc' # pc => \/ pc = "idle" /\ pc' = "loop" /\ window'.state = "Shown"
                      \/ pc = "loop" /\ pc' = "stopping"
                      \/ pc = "stopping" /\ pc' = "idle"
       /\ ret'.op = "run" => (pc' = "idle" /\ window'.state = "Hidden")
       /\ (pc = "stopping" /\ pc' = "idle") =>
              (ret'.op = "run" /\ window'.state = "Hidden")]_vars

C20_Witness ==
    /\ ret.op = "run"
    /\ pc = "idle"
    /\ window.state = "Hidden"

----------------------------------------------------------------------------
(* Threads: the calls of the component-instance surface and of            *)
(* slint::testing, made from the main thread or from another one           *)

MainThread == "main"
Threads == {"main", "worker"}

\* slint::private_api::assert_main_thread: FALSE aborts the process
assert_main_thread(thread) == thread = MainThread

\* ComponentInstance::inner: the assertion, then the pointer to the instance
ComponentInstance_inner(thread, inst) ==
    IF assert_main_thread(thread) THEN Some(inst) ELSE None

\* Engine: the window of the instance
slint_interpreter_component_instance_window(win) == win

\* a member function of ComponentInstance called on thread: it takes inner()
\* and hands it to the engine, which has the effect Reached
Member(thread, op, Reached) ==
    /\ pc = "idle"
    /\ window.handles > 0
    /\ IF ComponentInstance_inner(thread, instance).has
       THEN /\ Reached
            /\ ret' = [op |-> op, thread |-> thread, reached |-> TRUE]
            /\ pc' = pc
       ELSE /\ ret' = [op |-> op, thread |-> thread, reached |-> FALSE]
            /\ pc' = "aborted"
            /\ UNCHANGED <<instance, heap, ran, window>>
    /\ UNCHANGED <<compilerVars, held, registered, valueVars, modelVars>>

\* a function of slint::testing called on thread: it casts the pointer to
\* the instance itself and calls the engine
Testing(thread, op) ==
    /\ pc = "idle"
    /\ window.handles > 0
    /\ window' = slint_interpreter_component_instance_window(window)
    /\ ret' = [op |-> op, thread |-> thread, reached |-> TRUE]
    /\ UNCHANGED <<compilerVars, instanceVars, valueVars, modelVars, pc>>

ThreadShow(t) ==
    Member(t, "show", window' = show(window) /\ UNCHANGED <<instance, heap, ran>>)

ThreadHide(t) ==
    Member(t, "hide", window' = hide(window) /\ UNCHANGED <<instance, heap, ran>>)

ThreadWindow(t) ==
    Member(t, "window",
           /\ window' = slint_interpreter_component_instance_window(window)
           /\ UNCHANGED <<instance, heap, ran>>)

\* run() with an event loop that is told to stop
ThreadRun(t) ==
    Member(t, "run",
           window' = run_leave(run_enter(window)) /\ UNCHANGED <<instance, heap, ran>>)

ThreadQWidget(t) ==
    Member(t, "qwidget",
           /\ window' = slint_interpreter_component_instance_window(window)
           /\ UNCHANGED <<instance, heap, ran>>)

ThreadSetProperty(t, member, v) ==
    Member(t, "set_property",
           /\ instance' = set_property(instance, member, v).inst
           /\ UNCHANGED <<heap, ran, window>>)

ThreadGetProperty(t, member) ==
    Member(t, "get_property",
           /\ get_property(instance, member).has \in BOOLEAN
           /\ UNCHANGED <<instance, heap, ran, window>>)

ThreadInvokeCallback(t, member, args) ==
    Member(t, "invoke_callback",
           /\ ran' = invoke_callback(instance, heap, member, args).ran
           /\ UNCHANGED <<instance, heap, window>>)

ThreadSetCallback(t, member, F) ==
    /\ Len(heap) < MaxHandlers
    /\ Member(t, "set_callback",
              LET r == set_callback(instance, heap, member, F)
              IN /\ instance' = r.inst
                 /\ heap' = r.heap
                 /\ UNCHANGED <<ran, window>>)

ThreadSetGlobalProperty(t, global, member, v) ==
    Member(t, "set_global_property",
           /\ instance' = set_global_property(instance, global, member, v).inst
           /\ UNCHANGED <<heap, ran, window>>)

ThreadGetGlobalProperty(t, global, member) ==
    Member(t, "get_global_property",
           /\ get_global_property(instance, global, member).has \in BOOLEAN
           /\ UNCHANGED <<instance, heap, ran, window>>)

ThreadSetGlobalCallback(t, global, member, F) ==
    /\ Len(heap) < MaxHandlers
    /\ Member(t, "set_global_callback",
              LET r == set_global_callback(instance, heap, global, member, F)
              IN /\ instance' = r.inst
                 /\ heap' = r.heap
                 /\ UNCHANGED <<ran, window>>)

ThreadInvokeGlobalCallback(t, global, member, args) ==
    Member(t, "invoke_global_callback",
           /\ ran' = invoke_global_callback(instance, heap, global, member, args).ran
           /\ UNCHANGED <<instance, heap, window>>)

\* slint::testing::send_key_event
ThreadSendKeyEvent(t) == Testing(t, "send_key_event")

\* slint::testing::send_keyboard_string_sequence
ThreadSendKeyboardStringSequence(t) == Testing(t, "send_keyboard_string_sequence")

NextThreads ==
    \/ \E t \in Threads : ThreadShow(t)
    \/ \E t \in Threads : ThreadHide(t)
    \/ \E t \in Threads : ThreadWindow(t)
    \/ \E t \in Threads : ThreadRun(t)
    \/ \E t \in Threads : ThreadQWidget(t)
    \/ \E t \in Threads, v \in {ValueString("world"), ValueNumber(84)} :
           ThreadSetProperty(t, "hello", v)
    \/ \E t \in Threads : ThreadGetProperty(t, "hello")
    \/ \E t \in Threads : ThreadInvokeCallback(t, "clicked", << >>)
    \/ \E t \in Threads, F \in Functors : ThreadSetCallback(t, "clicked", F)
    \/ \E t \in Threads, v \in {ValueNumber(84)} :
           ThreadSetGlobalProperty(t, "TheGlobal", "hello", v)
    \/ \E t \in Threads : ThreadGetGlobalProperty(t, "TheGlobal", "hello")
    \/ \E t \in Threads, F \in Functors :
           ThreadSetGlobalCallback(t, "TheGlobal", "to_uppercase", F)
    \/ \E t \in Threads :
           ThreadInvokeGlobalCallback(t, "TheGlobal", "to_uppercase",
                                      << ValueString("Hello") >>)
    \/ \E t \in Threads : ThreadSendKeyEvent(t)
    \/ \E t \in Threads : ThreadSendKeyboardStringSequence(t)

SpecThreads == InitInstance /\ [][NextThreads]_vars

\* C21: a call made on a thread that is not the main thread never reaches
\* the engine: the assertion stops it first.
C21_MainThreadOnly ==
    (ret.op # "none" /\ ret.thread # MainThread) => ~ret.reached

----------------------------------------------------------------------------
(* ComponentDefinition: copies, destruction and the instances it created *)

MaxDefinitions == 3
MaxInstances == 2

\* Engine: the compiled component is reference counted; a Definition holds
\* one reference per handle, an instance holds one of its own (spec.md
\* section 3 and 5).  It is freed with its last reference.
slint_interpreter_component_definition_clone(c) == [c EXCEPT !.refs = @ + 1]

slint_interpreter_component_definition_destructor(c) ==
    IF c.refs = 1
    THEN [c EXCEPT !.refs = 0, !.freed = TRUE]
    ELSE [c EXCEPT !.refs = @ - 1]

\* Engine: the instance keeps the component it was created from alive
InstanceHoldsComponent(c) == [c EXCEPT !.refs = @ + 1]

ComponentDefinition_copy_shallow(d) == [d EXCEPT !.handles = @ + 1]

\* ComponentDefinition::ComponentDefinition(const ComponentDefinition &)
ComponentDefinition_copy(d) ==
    [slint_interpreter_component_definition_clone(d) EXCEPT !.handles = @ + 1]

\* ComponentDefinition::operator=, between two handles
ComponentDefinition_assign(d) ==
    slint_interpreter_component_definition_clone(
        slint_interpreter_component_definition_destructor(d))

\* ComponentDefinition::~ComponentDefinition
ComponentDefinition_destructor(d) ==
    [slint_interpreter_component_definition_destructor(d) EXCEPT !.handles = @ - 1]

\* ComponentDefinition::create: the engine makes the instance; the handle
\* in the union is copied into the return value and then destroyed by ~CI
ComponentDefinition_create(d) ==
    [definition |-> InstanceHoldsComponent(d),
     instance |-> create(d.inner),
     handle |-> ComponentHandle_release(ComponentHandle_copy(CreatedWindow))]

\* the host compiled the component App and holds its Definition
InitDefinition ==
    /\ compiler = slint_interpreter_component_compiler_new
    /\ log = << >>
    /\ definition = [handles |-> 1, refs |-> 1, freed |-> FALSE, inner |-> AppComponent]
    /\ instance = << >>
    /\ ret = NoCall
    /\ heap = << >>
    /\ ran = << >>
    /\ held = None
    /\ registered = << >>
    /\ NoValues
    /\ NoModel
    /\ window = NoWindow
    /\ pc = "idle"

DefinitionFrame ==
    UNCHANGED <<compiler, log, heap, held, registered, otherVars>>

DefinitionCopy ==
    /\ definition.handles \in 1..(MaxDefinitions - 1)
    /\ definition' = ComponentDefinition_copy(definition)
    /\ ret' = [op |-> "ComponentDefinition(const ComponentDefinition &)"]
    /\ ran' = << >>
    /\ UNCHANGED instance
    /\ DefinitionFrame

DefinitionAssign ==
    /\ definition.handles > 1
    /\ definition' = ComponentDefinition_assign(definition)
    /\ ret' = [op |-> "operator="]
    /\ ran' = << >>
    /\ UNCHANGED instance
    /\ DefinitionFrame

DefinitionDestroy ==
    /\ definition.handles > 0
    /\ definition' = ComponentDefinition_destructor(definition)
    /\ ret' = [op |-> "~ComponentDefinition"]
    /\ ran' = << >>
    /\ UNCHANGED instance
    /\ DefinitionFrame

DefinitionCreate ==
    /\ definition.handles > 0
    /\ Len(instance) < MaxInstances
    /\ LET r == ComponentDefinition_create(definition)
       IN /\ definition' = r.definition
          /\ instance' = Append(instance, r.instance)
          /\ ret' = [op |-> "create", handles |-> r.handle.handles]
    /\ ran' = << >>
    /\ DefinitionFrame

\* the host uses instance number i.  An instance whose component was freed
\* reads freed memory: any result
InstanceSetProperty(i, v) ==
    /\ IF definition.freed
       THEN /\ ret' \in [op : {"set_property"}, i : {i}, value : BOOLEAN]
            /\ UNCHANGED instance
       ELSE LET r == set_property(instance[i], "hello", v)
            IN /\ instance' = [instance EXCEPT ![i] = r.inst]
               /\ ret' = [op |-> "set_property", i |-> i, value |-> r.value]
    /\ ran' = << >>
    /\ UNCHANGED definition
    /\ DefinitionFrame

InstanceGetProperty(i) ==
    /\ IF definition.freed
       THEN ret' \in [op : {"get_property"}, i : {i},
                      value : {None, Some(ValueString(""))}]
       ELSE ret' = [op |-> "get_property", i |-> i,
                    value |-> get_property(instance[i], "hello")]
    /\ ran' = << >>
    /\ UNCHANGED <<definition, instance>>
    /\ DefinitionFrame

InstanceInvokeCallback(i) ==
    /\ IF definition.freed
       THEN /\ ret' \in [op : {"invoke_callback"}, i : {i},
                         value : {None, Some(ValueVoid)}]
            /\ ran' = << >>
       ELSE LET r == invoke_callback(instance[i], heap, "clicked", << >>)
            IN /\ ret' = [op |-> "invoke_callback", i |-> i, value |-> r.value]
               /\ ran' = r.ran
    /\ UNCHANGED <<definition, instance>>
    /\ DefinitionFrame

NextDefinition ==
    \/ DefinitionCopy
    \/ DefinitionAssign
    \/ DefinitionDestroy
    \/ DefinitionCreate
    \/ \E i \in DOMAIN instance, v \in {ValueString("world"), ValueString("")} :
           InstanceSetProperty(i, v)
    \/ \E i \in DOMAIN instance : InstanceGetProperty(i)
    \/ \E i \in DOMAIN instance : InstanceInvokeCallback(i)

SpecDefinition == InitDefinition /\ [][NextDefinition]_vars

\* C22: create() works on the Definition and on every copy of it, as often
\* as the host likes, and returns one handle to a new instance; the
\* component of an instance is never freed, however many Definition handles
\* are gone, so set_property, get_property and invoke_callback on an
\* instance go on working.
C22_InstancesOutliveDefinition ==
    /\ Len(instance) > 0 => ~definition.freed
    /\ definition.refs = definition.handles + Len(instance)
    /\ ret.op = "create" => ret.handles = 1
    /\ ret.op = "set_property" => ret.value = TRUE
    /\ ret.op = "get_property" =>
           ret.value = Some(instance[ret.i].properties["hello"])
    /\ ret.op = "invoke_callback" => ret.value = Some(ValueVoid)

C22_Witness ==
    /\ definition.handles = 0
    /\ Len(instance) = MaxInstances
    /\ ret.op = "get_property"
    /\ ret.i = 1
    /\ ret.value = Some(ValueString("world"))

----------------------------------------------------------------------------
(* ComponentCompiler: the configuration *)

Styles == {"fluent", "bogus"}
IncludePaths == {<< >>, << "lib" >>, << "vendor", "lib" >>}
ConfiguredSources == {"app", "import-lib", "widgets", "syntax-error"}

\* held is what the host last set: nothing yet
InitConfiguration ==
    /\ compiler = slint_interpreter_component_compiler_new
    /\ definition = None
    /\ log = << >>
    /\ ret = NoCall
    /\ instance = NoInstance
    /\ heap = << >>
    /\ ran = << >>
    /\ held = [style |-> "", include_paths |-> << >>]
    /\ registered = << >>
    /\ NoValues
    /\ NoModel
    /\ window = NoWindow
    /\ pc = "idle"

SetStyle(s) ==
    /\ compiler' = set_style(compiler, s)
    /\ held' = [held EXCEPT !.style = s]
    /\ ret' = [op |-> "set_style"]
    /\ UNCHANGED <<definition, log, instance, heap, ran, registered, otherVars>>

SetIncludePaths(paths) ==
    /\ compiler' = set_include_paths(compiler, paths)
    /\ held' = [held EXCEPT !.include_paths = paths]
    /\ ret' = [op |-> "set_include_paths"]
    /\ UNCHANGED <<definition, log, instance, heap, ran, registered, otherVars>>

Style ==
    /\ ret' = [op |-> "style", value |-> style(compiler)]
    /\ UNCHANGED <<compilerVars, instanceVars, otherVars>>

GetIncludePaths ==
    /\ ret' = [op |-> "include_paths", value |-> include_paths(compiler)]
    /\ UNCHANGED <<compilerVars, instanceVars, otherVars>>

ConfiguredBuild(source_code) ==
    /\ Len(log) < MaxBuilds
    /\ LET r == build_from_source(compiler, source_code, "inline.slint", Len(log) + 1)
       IN /\ compiler' = r.inner
          /\ definition' = r.value
          /\ log' = Append(log, [input |-> source_code, ok |-> r.value.has])
          /\ ret' = [op |-> "build_from_source", input |-> source_code,
                     value |-> r.value]
    /\ UNCHANGED <<instanceVars, otherVars>>

NextConfiguration ==
    \/ \E s \in Styles : SetStyle(s)
    \/ \E paths \in IncludePaths : SetIncludePaths(paths)
    \/ Style
    \/ GetIncludePaths
    \/ \E source_code \in ConfiguredSources : ConfiguredBuild(source_code)

SpecConfiguration == InitConfiguration /\ [][NextConfiguration]_vars

\* whether a document compiles under a configuration
CompilesUnder(source_code, config) ==
    CASE source_code = "app" -> TRUE
      [] source_code = "import-lib" ->
            \E i \in DOMAIN config.include_paths : config.include_paths[i] = "lib"
      [] source_code = "widgets" -> config.style # "bogus"
      [] OTHER -> FALSE

\* C23: the compiler holds the style and the include paths the host last
\* set, whatever was built in between; style() and include_paths() return
\* them; a build succeeds or fails as its document does under the
\* configuration in force when it is called.
C23_Configuration ==
    /\ style(compiler) = held.style
    /\ include_paths(compiler) = held.include_paths
    /\ ret.op = "style" => ret.value = held.style
    /\ ret.op = "include_paths" => ret.value = held.include_paths
    /\ ret.op = "build_from_source" =>
           (ret.value.has <=> CompilesUnder(ret.input, held))

C23_Witness ==
    /\ ret.op = "build_from_source"
    /\ ret.input = "import-lib"
    /\ ret.value.has
    /\ held = [style |-> "bogus", include_paths |-> << "vendor", "lib" >>]
    /\ Len(log) = 3
    /\ ~log[1].ok
    /\ log[1].input = "import-lib"

----------------------------------------------------------------------------
(* Recoverable failures of set_property and set_global_property *)

MaxApplied == 3

AppliedNames == {"hello", "count", "missing"}
AppliedGlobals == {"TheGlobal", "Internal", "Nope"}
AppliedValues == {ValueString("world"), ValueNumber(5)}

\* an instance of a component that compiled; held lists the calls the host
\* made on it and what each returned
InitApplied ==
    \E source_code \in Sources :
        LET r == build_from_source(slint_interpreter_component_compiler_new,
                                   source_code, "inline.slint", 1)
        IN /\ r.value.has
           /\ compiler = r.inner
           /\ definition = r.value
           /\ log = << [input |-> Compile(source_code), ok |-> TRUE] >>
           /\ ret = NoCall
           /\ instance = create(r.value.value)
           /\ heap = << >>
           /\ ran = << >>
           /\ held = << >>
           /\ registered = << >>
           /\ NoValues
           /\ NoModel
           /\ window = CreatedWindow
           /\ pc = "idle"

ApplyProperty(member, v) ==
    /\ Len(held) < MaxApplied
    /\ LET r == set_property(instance, member, v)
       IN /\ instance' = r.inst
          /\ ret' = [op |-> "set_property", value |-> r.value]
          /\ held' = Append(held, [global |-> "", member |-> member,
                                   input |-> v, value |-> r.value])
    /\ UNCHANGED <<compilerVars, heap, ran, registered, otherVars>>

ApplyGlobalProperty(global, member, v) ==
    /\ Len(held) < MaxApplied
    /\ LET r == set_global_property(instance, global, member, v)
       IN /\ instance' = r.inst
          /\ ret' = [op |-> "set_global_property", value |-> r.value]
          /\ held' = Append(held, [global |-> global, member |-> member,
                                   input |-> v, value |-> r.value])
    /\ UNCHANGED <<compilerVars, heap, ran, registered, otherVars>>

NextApplied ==
    \/ \E member \in AppliedNames, v \in AppliedValues : ApplyProperty(member, v)
    \/ \E global \in AppliedGlobals, member \in AppliedNames, v \in AppliedValues :
           ApplyGlobalProperty(global, member, v)

SpecApplied == InitApplied /\ [][NextApplied]_vars

\* a set_property call whose name is declared and whose value has the
\* variant of the declared type
ValidCall(c) ==
    /\ c.global = ""
    /\ \E p \in Descriptor(properties(instance.component), c.member) :
           c.input.type = VariantOf(p.property_type)

\* C24: a set_property or set_global_property call that returns false
\* leaves every property of the instance as it was; a set_property call
\* with a declared name and a fitting value returns true and takes effect,
\* whatever calls failed before it.
C24_FailureLeavesState ==
    [][held' # held =>
          LET c == held'[Len(held')]
              got == get_property(instance', c.member)
          IN /\ ret'.value = c.value
             /\ ~c.value => instance' = instance
             /\ ValidCall(c) =>
                   /\ c.value
                   /\ got.has
                   /\ got.value.type = c.input.type
                   /\ c.input.type = "String" => got.value = c.input]_vars

C24_Witness ==
    /\ Len(held) = 3
    /\ held[1] = [global |-> "", member |-> "hello", input |-> ValueString("world"),
                  value |-> TRUE]
    /\ held[2].member = "missing"
    /\ ~held[2].value
    /\ held[3] = [global |-> "", member |-> "count", input |-> ValueNumber(5),
                  value |-> TRUE]
    /\ get_property(instance, "hello") = Some(ValueString("world"))
    /\ get_property(instance, "count") = Some(ValueNumber(4))

----------------------------------------------------------------------------
(* Handler objects over the lifetime of an instance *)

\* the handler objects the instance's tables hold
Installed(inst) ==
    {inst.callbacks[c] : c \in DOMAIN inst.callbacks}
        \cup UNION {{inst.globals[g].callbacks[c] : c \in DOMAIN inst.globals[g].callbacks} :
                       g \in DOMAIN inst.globals}

RECURSIVE DeleteAll(_, _)
DeleteAll(hp, S) ==
    IF S = {}
    THEN hp
    ELSE LET data == CHOOSE h \in S : TRUE
         IN DeleteAll(Delete(hp, data), S \ {data})

\* the instance is destroyed with its last handle: it drops every handler
\* its tables still hold
slint_interpreter_component_instance_drop(inst, hp) ==
    DeleteAll(hp, Installed(inst) \ {0})

MaxAllocated == 3

HandledCallbacks == {"clicked", "missing"}
HandledGlobals == {"TheGlobal", "Nope"}
HandledMembers == {"ping"}

HandlerSetCallback(member, F) ==
    /\ Alive
    /\ Len(heap) < MaxAllocated
    /\ LET r == set_callback(instance, heap, member, F)
       IN /\ instance' = r.inst
          /\ heap' = r.heap
          /\ ret' = [op |-> "set_callback", value |-> r.value]
          /\ registered' = IF r.value
                            THEN Append(registered, [global |-> "", member |-> member,
                                                     data |-> Len(heap) + 1])
                            ELSE registered
    /\ ran' = << >>
    /\ UNCHANGED <<otherVars, compilerVars, held>>

HandlerSetGlobalCallback(global, member, F) ==
    /\ Alive
    /\ Len(heap) < MaxAllocated
    /\ LET r == set_global_callback(instance, heap, global, member, F)
       IN /\ instance' = r.inst
          /\ heap' = r.heap
          /\ ret' = [op |-> "set_global_callback", value |-> r.value]
          /\ registered' = IF r.value
                            THEN Append(registered, [global |-> global, member |-> member,
                                                     data |-> Len(heap) + 1])
                            ELSE registered
    /\ ran' = << >>
    /\ UNCHANGED <<otherVars, compilerVars, held>>

HandlerInvokeCallback(member, args) ==
    /\ Alive
    /\ LET r == invoke_callback(instance, heap, member, args)
       IN /\ ret' = [op |-> "invoke_callback", value |-> r.value]
          /\ ran' = r.ran
    /\ UNCHANGED <<otherVars, compilerVars, instance, heap, held, registered>>

HandlerInvokeGlobalCallback(global, member, args) ==
    /\ Alive
    /\ LET r == invoke_global_callback(instance, heap, global, member, args)
       IN /\ ret' = [op |-> "invoke_global_callback", value |-> r.value]
          /\ ran' = r.ran
    /\ UNCHANGED <<otherVars, compilerVars, instance, heap, held, registered>>

HandlerHandleCopy ==
    /\ Alive
    /\ window.handles < MaxOwners
    /\ window' = ComponentHandle_copy(window)
    /\ ret' = [op |-> "copy"]
    /\ ran' = << >>
    /\ UNCHANGED <<compilerVars, instance, heap, held, registered, valueVars,
                   modelVars, pc>>

HandlerHandleRelease ==
    /\ Alive
    /\ window' = ComponentHandle_release(window)
    /\ heap' = IF window.handles = 1
               THEN slint_interpreter_component_instance_drop(instance, heap)
               ELSE heap
    /\ ret' = [op |-> "release"]
    /\ ran' = << >>
    /\ UNCHANGED <<compilerVars, instance, held, registered, valueVars, modelVars, pc>>

NextHandlers ==
    \/ \E member \in HandledCallbacks, F \in Functors : HandlerSetCallback(member, F)
    \/ \E global \in HandledGlobals, member \in HandledMembers, F \in Functors :
           HandlerSetGlobalCallback(global, member, F)
    \/ \E member \in HandledCallbacks : HandlerInvokeCallback(member, << >>)
    \/ \E global \in HandledGlobals, member \in HandledMembers :
           HandlerInvokeGlobalCallback(global, member, << >>)
    \/ HandlerHandleCopy
    \/ HandlerHandleRelease

SpecHandlers == InitInstance /\ [][NextHandlers]_vars

----------------------------------------------------------------------------
(* Struct::iterator.  heap holds the opaque iterator states the engine      *)
(* made, each with the number of times it was released; held holds the      *)
(* iterator objects of the host, by the variable that names them.           *)

MaxIterators == 2

Iterators == {"a", "b"}

\* the structs the host iterates over
IteratedLists ==
    {<< >>,
     << <<"hello", ValueString("world")>> >>,
     << <<"hello", ValueString("world")>>, <<"count", ValueNumber(5)>> >>}

\* Engine: a new opaque iterator state, before the first field
slint_interpreter_struct_make_iter(hp) ==
    [heap |-> Append(hp, [released |-> 0]),
     inner |-> [id |-> Len(hp) + 1, at |-> 0]]

\* Engine: the next field, or a null pointer after the last one.  A field
\* is pointed to by its index, 0 is the null pointer.  On a state that was
\* released the call may return anything.
slint_interpreter_struct_iterator_next(struc, hp, inner) ==
    IF hp[inner.id].released > 0
    THEN {[inner |-> [inner EXCEPT !.at = j], v |-> j,
           k |-> IF j = 0 THEN "" ELSE struc[j].k] : j \in 0..Len(struc)}
    ELSE IF inner.at < Len(struc)
         THEN {[inner |-> [inner EXCEPT !.at = @ + 1], v |-> inner.at + 1,
                k |-> struc[inner.at + 1].k]}
         ELSE {[inner |-> inner, v |-> 0, k |-> ""]}

\* Engine: releases the opaque state
slint_interpreter_struct_iterator_destructor(hp, inner) ==
    [hp EXCEPT ![inner.id].released = @ + 1]

\* no iterator object under this name
NoIterator == [alive |-> FALSE, inner |-> [id |-> 0, at |-> 0], v |-> 0, k |-> ""]

\* Struct::iterator::next, for the result o of the engine's next
iterator_next(hp, it, o) ==
    [it |-> [it EXCEPT !.inner = o.inner, !.v = o.v, !.k = o.k],
     heap |-> IF o.v = 0
              THEN slint_interpreter_struct_iterator_destructor(hp, o.inner)
              ELSE hp]

\* Struct::iterator::iterator(): the end iterator
iterator_end == [NoIterator EXCEPT !.alive = TRUE]

\* Struct::iterator::~iterator
iterator_destructor(hp, it) ==
    IF it.v # 0
    THEN slint_interpreter_struct_iterator_destructor(hp, it.inner)
    ELSE hp

\* Struct::iterator::iterator(iterator &&) = default: memberwise, the
\* source keeps its members
iterator_move(other) == other

\* operator==(const iterator &, const iterator &)
iterator_equal(x, y) == x.v = y.v

InitIterator ==
    /\ compiler = slint_interpreter_component_compiler_new
    /\ definition = None
    /\ log = << >>
    /\ instance = NoInstance
    /\ heap = << >>
    /\ ran = << >>
    /\ held = [i \in Iterators |-> NoIterator]
    /\ registered = << >>
    /\ \E args \in IteratedLists :
          /\ hostStruct = StructFromList(args)
          /\ fields = [n \in FieldNames |-> LastOf(args, n)]
    /\ ret = NoCall
    /\ hostValue = ValueVoid
    /\ datum = [kind |-> "none"]
    /\ NoModel
    /\ window = NoWindow
    /\ pc = "idle"

\* a second release of the same state is a double free: the program does
\* not go on after it
MaxReleases == 2

IteratorFrame ==
    /\ \A id \in DOMAIN heap : heap[id].released < MaxReleases
    /\ UNCHANGED <<compilerVars, instance, ran, registered, valueVars, modelVars, lifeVars>>

\* auto i = stru.begin();
IteratorBegin(i) ==
    /\ ~held[i].alive
    /\ Len(heap) < MaxIterators
    /\ LET m == slint_interpreter_struct_make_iter(heap)
       IN \E o \in slint_interpreter_struct_iterator_next(hostStruct, m.heap, m.inner) :
              LET r == iterator_next(m.heap, [iterator_end EXCEPT !.inner = m.inner], o)
              IN /\ held' = [held EXCEPT ![i] = r.it]
                 /\ heap' = r.heap
    /\ ret' = [op |-> "begin", at |-> i]
    /\ IteratorFrame

\* auto i = stru.end();
IteratorEnd(i) ==
    /\ ~held[i].alive
    /\ held' = [held EXCEPT ![i] = iterator_end]
    /\ ret' = [op |-> "end", at |-> i]
    /\ UNCHANGED heap
    /\ IteratorFrame

\* ++i;
IteratorIncrement(i) ==
    /\ held[i].alive
    /\ IF held[i].v # 0
       THEN \E o \in slint_interpreter_struct_iterator_next(hostStruct, heap, held[i].inner) :
                LET r == iterator_next(heap, held[i], o)
                IN /\ held' = [held EXCEPT ![i] = r.it]
                   /\ heap' = r.heap
       ELSE UNCHANGED <<held, heap>>
    /\ ret' = [op |-> "increment", at |-> i, was |-> held[i], released |-> heap]
    /\ IteratorFrame

\* auto j = std::move(i);
IteratorMoveConstruct(i, j) ==
    /\ held[i].alive
    /\ ~held[j].alive
    /\ held' = [held EXCEPT ![j] = iterator_move(held[i])]
    /\ ret' = [op |-> "move", at |-> j]
    /\ UNCHANGED heap
    /\ IteratorFrame

\* j = std::move(i);
IteratorMoveAssign(i, j) ==
    /\ i # j
    /\ held[i].alive
    /\ held[j].alive
    /\ held' = [held EXCEPT ![j] = iterator_move(held[i])]
    /\ ret' = [op |-> "move-assign", at |-> j]
    /\ UNCHANGED heap
    /\ IteratorFrame

\* i goes out of scope
IteratorDestroy(i) ==
    /\ held[i].alive
    /\ heap' = iterator_destructor(heap, held[i])
    /\ held' = [held EXCEPT ![i] = NoIterator]
    /\ ret' = [op |-> "destroy", at |-> i]
    /\ IteratorFrame

\* i == stru.end()
IteratorCompare(i) ==
    /\ held[i].alive
    /\ ret' = [op |-> "compare", at |-> i, value |-> iterator_equal(held[i], iterator_end)]
    /\ UNCHANGED <<held, heap>>
    /\ IteratorFrame

NextIterator ==
    \/ \E i \in Iterators : IteratorBegin(i)
    \/ \E i \in Iterators : IteratorEnd(i)
    \/ \E i \in Iterators : IteratorIncrement(i)
    \/ \E i \in Iterators, j \in Iterators : IteratorMoveConstruct(i, j)
    \/ \E i \in Iterators, j \in Iterators : IteratorMoveAssign(i, j)
    \/ \E i \in Iterators : IteratorDestroy(i)
    \/ \E i \in Iterators : IteratorCompare(i)

SpecIterator == InitIterator /\ [][NextIterator]_vars

\* C26: over any sequence of ++, moves and destruction of iterators made by
\* begin(), every opaque iterator state is released at most once, and once
\* no iterator is left it has been released exactly once; ++ on an
\* exhausted iterator changes nothing, and an exhausted iterator equals
\* end().
C26_IteratorReleasedOnce ==
    /\ \A id \in DOMAIN heap : heap[id].released <= 1
    /\ (\A i \in Iterators : ~held[i].alive) =>
           \A id \in DOMAIN heap : heap[id].released = 1
    /\ (ret.op = "increment" /\ ret.was.v = 0) =>
           (held[ret.at] = ret.was /\ heap = ret.released)
    /\ (ret.op = "compare") => (ret.value <=> held[ret.at].v = 0)

====
